---- MODULE Spec2Model ----
(***************************************************************************)
(* Model of the SubsTrack billing engine (SubscriptionCalculator) and of   *)
(* the inputs it is called with.                                           *)
(*                                                                         *)
(* Time.  A JavaScript Date is a count of milliseconds; the model counts   *)
(* ticks, TicksPerDay of them to a calendar day, in local time of a zone   *)
(* without daylight saving.  Instant t lies on day t \div TicksPerDay      *)
(* (days counted from 1970-01-01) at time of day t % TicksPerDay; tick 0   *)
(* of a day is local midnight.                                             *)
(*                                                                         *)
(* Money.  Amounts are JavaScript numbers; the model computes with exact   *)
(* fractions <<numerator, denominator>> in lowest terms.                   *)
(***************************************************************************)
EXTENDS Integers, Sequences, FiniteSets, TLC

VARIABLES
  subscriptions,  \* the Subscription[] in hand: the calculator's input, the store's state.subscriptions
  now,            \* the clock: what new Date() returns
  ret,            \* what the last call handed back
  storage,        \* AsyncStorage item '@substrack:subscriptions', parsed
  pass,           \* a getUpcomingSubscriptions call in progress
  isLoading,      \* the store's isLoading
  isSyncing,      \* the store's isSyncing
  error,          \* the store's error
  summary,        \* the store's summary
  scheduledNotifications,  \* NotificationScheduler.scheduledNotifications
  calls           \* the calls of store actions and backend methods made so far

\* the store's flags and summary (lastSyncedAt, which nothing reads, is left
\* out), the scheduler's map and the calls
app ==
  <<isLoading, isSyncing, error, summary, scheduledNotifications, calls>>

vars == <<subscriptions, now, ret, storage, pass, app>>

-----------------------------------------------------------------------------
(* Bounds of the model *)

TicksPerDay == 2
MaxCustomDays == 7
MaxCycleLimit == 3
MaxAmount == 3
MaxSubs == 3
HorizonDays == 85
CycleHorizonDays == 40
UpcomingHorizonDays == 5
MaxReminderDays == 4
InverseDays == 430
MaxFrameSubs == 2
FrameHorizonDays == 2
TotalHorizonDays == 8
MaxStored == 2
EditTicks == 1
SchedulerHorizonDays == 1
MaxCalls == 3
MaxInFlight == 2

-----------------------------------------------------------------------------
(* JavaScript Date: the proleptic Gregorian calendar *)

\* Day number of the date d of month mp of the year yy that begins in March
\* (mp = 0 is March, mp = 11 is February), d any integer offset into the month.
DaysFromMarchYear(yy, mp, d) ==
  LET yoe == yy % 400
  IN  (yy \div 400) * 146097 + yoe * 365 + (yoe \div 4) - (yoe \div 100)
        + ((153 * mp + 2) \div 5) + d - 1 - 719468

\* Day number of the civil date y-m-d, m in 1..12, d any integer offset into
\* the month (day 0 is 1970-01-01).
DaysFromCivil(y, m, d) ==
  DaysFromMarchYear(IF m <= 2 THEN y - 1 ELSE y,
                    IF m > 2 THEN m - 3 ELSE m + 9, d)

\* The civil date [y, m, d], m in 1..12, of day doy of month mp of the year
\* y0 that begins in March.
CivilFromMonth(y0, doy, mp) ==
  [y |-> y0 + (IF mp >= 10 THEN 1 ELSE 0),
   m |-> IF mp < 10 THEN mp + 3 ELSE mp - 9,
   d |-> doy - ((153 * mp + 2) \div 5) + 1]

CivilFromDayOfYear(y0, doy) == CivilFromMonth(y0, doy, (5 * doy + 2) \div 153)

CivilFromYearOfEra(era, doe, yoe) ==
  CivilFromDayOfYear(yoe + era * 400,
                     doe - (365 * yoe + (yoe \div 4) - (yoe \div 100)))

CivilFromDayOfEra(era, doe) ==
  CivilFromYearOfEra(era, doe,
    (doe - (doe \div 1460) + (doe \div 36524) - (doe \div 146096)) \div 365)

\* The civil date of day number z, as [y, m, d] with m in 1..12.
CivilFromDays(z) ==
  CivilFromDayOfEra((z + 719468) \div 146097, (z + 719468) % 146097)

DayOf(t) == t \div TicksPerDay
TimeOfDay(t) == t % TicksPerDay

\* Date.prototype.getFullYear / getMonth (0-based) / getDate
getFullYear(t) == CivilFromDays(DayOf(t)).y
getMonth(t) == CivilFromDays(DayOf(t)).m - 1
getDate(t) == CivilFromDays(DayOf(t)).d

\* MakeDay of ECMAScript: month is 0-based and may lie outside 0..11, date
\* may lie outside the month; both roll over.
MakeDay(year, month, date) ==
  DaysFromCivil(year + (month \div 12), (month % 12) + 1, 1) + date - 1

\* new Date(year, month, date): local midnight of that day.
NewDate(year, month, date) == MakeDay(year, month, date) * TicksPerDay

\* Date.prototype.setMonth / setFullYear / setDate: the other fields and the
\* time of day are kept, the result is normalised.
setMonth(t, month) ==
  LET c == CivilFromDays(DayOf(t))
  IN  MakeDay(c.y, month, c.d) * TicksPerDay + TimeOfDay(t)

setFullYear(t, year) ==
  LET c == CivilFromDays(DayOf(t))
  IN  MakeDay(year, c.m - 1, c.d) * TicksPerDay + TimeOfDay(t)

setDate(t, date) ==
  LET c == CivilFromDays(DayOf(t))
  IN  MakeDay(c.y, c.m - 1, date) * TicksPerDay + TimeOfDay(t)

-----------------------------------------------------------------------------
(* JavaScript numbers as exact fractions *)

RECURSIVE Gcd(_, _)
Gcd(a, b) == IF b = 0 THEN a ELSE Gcd(b, a % b)

Abs(a) == IF a < 0 THEN -a ELSE a

\* n / d in lowest terms, d # 0
Frac(n, d) ==
  LET g == Gcd(Abs(n), Abs(d))
      s == IF d < 0 THEN -1 ELSE 1
  IN  <<(s * n) \div g, (s * d) \div g>>

Num(a) == Frac(a, 1)
FracAdd(p, q) == Frac(p[1] * q[2] + q[1] * p[2], p[2] * q[2])
FracMul(p, q) == Frac(p[1] * q[1], p[2] * q[2])
FracDiv(p, q) == Frac(p[1] * q[2], p[2] * q[1])

\* p < q and p <= q, for fractions with a positive denominator and for the
\* infinities <<1, 0>> and <<-1, 0>>; false when either side is NaN
FracLess(p, q) == p # <<0, 0>> /\ q # <<0, 0>> /\ p[1] * q[2] < q[1] * p[2]
FracLeq(p, q) == p # <<0, 0>> /\ q # <<0, 0>> /\ p[1] * q[2] <= q[1] * p[2]

\* The results of a division that are not numbers of the ordinary kind:
\* 0 / 0 is NaN, and a / 0 is Infinity or -Infinity by the sign of a.
NaN == <<0, 0>>
IsFinite(p) == p[2] > 0

\* a / b for integers a and b
Divide(a, b) == IF a = 0 /\ b = 0 THEN NaN ELSE Frac(a, b)

\* p * k for an integer k > 0
Times(p, k) == IF p = NaN THEN NaN ELSE Frac(p[1] * k, p[2])

\* Math.min and Math.max of two numbers: NaN if either is NaN
MathMin(p, q) == IF p = NaN \/ q = NaN THEN NaN ELSE IF FracLess(q, p) THEN q ELSE p
MathMax(p, q) == IF p = NaN \/ q = NaN THEN NaN ELSE IF FracLess(p, q) THEN q ELSE p

-----------------------------------------------------------------------------
(* Values of the program *)

\* An optional number (customFrequencyDays?, cycleLimit?) that is undefined is
\* modelled as 0: the calculator only ever tests such a field for truthiness,
\* and undefined and 0 are both falsy.
Undefined == 0
Truthy(x) == x # Undefined

\* The value null of a result of type Date | null; a Date result of that type
\* is the one-element sequence <<t>>.
Null == <<>>
Some(t) == <<t>>

\* How a call completes: it returns a value or throws an Error.
Return(v) == [threw |-> FALSE, value |-> v]
Throw(message) == [threw |-> TRUE, value |-> message]

\* Math.ceil(a / b) for integers a and b > 0
MathCeilDiv(a, b) == -((-a) \div b)

BillingFrequency == {"monthly", "quarterly", "half-yearly", "yearly", "custom"}
Currency == {"USD", "INR", "EUR", "GBP", "AUD"}

-----------------------------------------------------------------------------
(* SubscriptionCalculator *)

addBillingCycle(date, frequency, customDays) ==
  CASE frequency = "monthly"     -> setMonth(date, getMonth(date) + 1)
    [] frequency = "quarterly"   -> setMonth(date, getMonth(date) + 3)
    [] frequency = "half-yearly" -> setMonth(date, getMonth(date) + 6)
    [] frequency = "yearly"      -> setFullYear(date, getFullYear(date) + 1)
    [] frequency = "custom"      ->
         IF Truthy(customDays) THEN setDate(date, getDate(date) + customDays)
                               ELSE date
    [] OTHER                     -> date

\* for (let i = 0; i < subscription.cycleLimit; i++) endDate = addBillingCycle(endDate, ...)
RECURSIVE endDateLoop(_, _, _)
endDateLoop(endDate, i, subscription) ==
  IF i < subscription.cycleLimit
  THEN endDateLoop(addBillingCycle(endDate, subscription.frequency,
                                   subscription.customFrequencyDays),
                   i + 1, subscription)
  ELSE endDate

\* Faulty variant (sensitivity of C2): the loop counts from 1.
getSubscriptionEndDate_LoopFromOne(subscription) ==
  IF ~subscription.isOneTime \/ ~Truthy(subscription.cycleLimit)
  THEN Throw("Not a one-time subscription")
  ELSE Return(endDateLoop(subscription.startDate, 1, subscription))

\* Faulty variant (sensitivity of C3): the guard joins its tests with &&.
getSubscriptionEndDate_GuardAnd(subscription) ==
  IF ~subscription.isOneTime /\ ~Truthy(subscription.cycleLimit)
  THEN Throw("Not a one-time subscription")
  ELSE Return(endDateLoop(subscription.startDate, 0, subscription))

getSubscriptionEndDate(subscription) ==
  IF ~subscription.isOneTime \/ ~Truthy(subscription.cycleLimit)
  THEN Throw("Not a one-time subscription")
  ELSE Return(endDateLoop(subscription.startDate, 0, subscription))

\* Faulty variant (sensitivity of C4): the loop runs cycleLimit times.
RECURSIVE reminderDateLoop_AllCycles(_, _, _)
reminderDateLoop_AllCycles(reminderDate, i, subscription) ==
  IF i < subscription.cycleLimit
  THEN reminderDateLoop_AllCycles(
         addBillingCycle(reminderDate, subscription.frequency,
                         subscription.customFrequencyDays),
         i + 1, subscription)
  ELSE reminderDate

\* for (let i = 0; i < subscription.cycleLimit - 1; i++) reminderDate = addBillingCycle(reminderDate, ...)
RECURSIVE reminderDateLoop(_, _, _)
reminderDateLoop(reminderDate, i, subscription) ==
  IF i < subscription.cycleLimit - 1
  THEN reminderDateLoop(addBillingCycle(reminderDate, subscription.frequency,
                                        subscription.customFrequencyDays),
                        i + 1, subscription)
  ELSE reminderDate

getCancellationReminderDate(subscription) ==
  IF \/ ~subscription.isOneTime
     \/ ~Truthy(subscription.cycleLimit)
     \/ subscription.cycleLimit <= 1
  THEN Return(Null)
  ELSE Return(Some(reminderDateLoop(subscription.startDate, 0, subscription)))

\* Faulty variant (sensitivity of C22): ended from the end date itself on.
getNextBillingDate_EndedAtEnd(subscription, today) ==
  LET billingDay == subscription.billingDate
      limited    == subscription.isOneTime /\ Truthy(subscription.cycleLimit)
      endDate    == getSubscriptionEndDate(subscription)
      nextDate   == NewDate(getFullYear(today), getMonth(today), billingDay)
  IN  IF limited /\ endDate.threw THEN endDate
      ELSE IF limited /\ today >= endDate.value THEN Return(endDate.value)
      ELSE IF nextDate <= today
           THEN Return(addBillingCycle(nextDate, subscription.frequency,
                                       subscription.customFrequencyDays))
           ELSE Return(nextDate)

\* today is the value of new Date() in the call
getNextBillingDate(subscription, today) ==
  LET billingDay == subscription.billingDate
      limited    == subscription.isOneTime /\ Truthy(subscription.cycleLimit)
      endDate    == getSubscriptionEndDate(subscription)
      nextDate   == NewDate(getFullYear(today), getMonth(today), billingDay)
  IN  IF limited /\ endDate.threw THEN endDate
      ELSE IF limited /\ today > endDate.value THEN Return(endDate.value)
      ELSE IF nextDate <= today
           THEN Return(addBillingCycle(nextDate, subscription.frequency,
                                       subscription.customFrequencyDays))
           ELSE Return(nextDate)

\* Faulty variant (sensitivity of C14): the reminder is moved forward.
getReminderDate_DaysAfter(subscription, today) ==
  IF ~subscription.reminderEnabled THEN Return(Null)
  ELSE LET nextBilling == getNextBillingDate(subscription, today)
       IN  IF nextBilling.threw THEN nextBilling
           ELSE Return(Some(setDate(nextBilling.value,
                                    getDate(nextBilling.value)
                                      + subscription.reminderDaysBefore)))

\* today is the value of new Date() in the call of getNextBillingDate
getReminderDate(subscription, today) ==
  IF ~subscription.reminderEnabled THEN Return(Null)
  ELSE LET nextBilling == getNextBillingDate(subscription, today)
       IN  IF nextBilling.threw THEN nextBilling
           ELSE Return(Some(setDate(nextBilling.value,
                                    getDate(nextBilling.value)
                                      - subscription.reminderDaysBefore)))

getDaysUntilBilling(subscription, today) ==
  LET nextBilling == getNextBillingDate(subscription, today)
  IN  IF nextBilling.threw THEN nextBilling
      ELSE Return(MathCeilDiv(nextBilling.value - today, TicksPerDay))

\* Faulty variant (sensitivity of C5): half-yearly divides by 2.
getMonthlyEquivalent_HalfYearlyBy2(subscription) ==
  LET amount == subscription.amount
      frequency == subscription.frequency
      customFrequencyDays == subscription.customFrequencyDays
  IN  CASE frequency = "monthly"     -> Return(amount)
        [] frequency = "quarterly"   -> Return(FracDiv(amount, Num(3)))
        [] frequency = "half-yearly" -> Return(FracDiv(amount, Num(2)))
        [] frequency = "yearly"      -> Return(FracDiv(amount, Num(12)))
        [] frequency = "custom"      ->
             IF Truthy(customFrequencyDays)
             THEN Return(FracDiv(FracMul(amount, Num(30)), Num(customFrequencyDays)))
             ELSE Return(amount)
        [] OTHER                     -> Return(amount)

\* Faulty variant (sensitivity of C6): custom adds 30 instead of multiplying.
getMonthlyEquivalent_CustomPlus30(subscription) ==
  LET amount == subscription.amount
      frequency == subscription.frequency
      customFrequencyDays == subscription.customFrequencyDays
  IN  CASE frequency = "monthly"     -> Return(amount)
        [] frequency = "quarterly"   -> Return(FracDiv(amount, Num(3)))
        [] frequency = "half-yearly" -> Return(FracDiv(amount, Num(6)))
        [] frequency = "yearly"      -> Return(FracDiv(amount, Num(12)))
        [] frequency = "custom"      ->
             IF Truthy(customFrequencyDays)
             THEN Return(FracDiv(FracAdd(amount, Num(30)), Num(customFrequencyDays)))
             ELSE Return(amount)
        [] OTHER                     -> Return(amount)

getMonthlyEquivalent(subscription) ==
  LET amount == subscription.amount
      frequency == subscription.frequency
      customFrequencyDays == subscription.customFrequencyDays
  IN  CASE frequency = "monthly"     -> Return(amount)
        [] frequency = "quarterly"   -> Return(FracDiv(amount, Num(3)))
        [] frequency = "half-yearly" -> Return(FracDiv(amount, Num(6)))
        [] frequency = "yearly"      -> Return(FracDiv(amount, Num(12)))
        [] frequency = "custom"      ->
             IF Truthy(customFrequencyDays)
             THEN Return(FracDiv(FracMul(amount, Num(30)), Num(customFrequencyDays)))
             ELSE Return(amount)
        [] OTHER                     -> Return(amount)

\* Faulty variant (sensitivity of C16): a quarter is taken back as one month.
subtractBillingCycle_QuarterAsMonth(date, frequency, customDays) ==
  CASE frequency = "monthly"     -> setMonth(date, getMonth(date) - 1)
    [] frequency = "quarterly"   -> setMonth(date, getMonth(date) - 1)
    [] frequency = "half-yearly" -> setMonth(date, getMonth(date) - 6)
    [] frequency = "yearly"      -> setFullYear(date, getFullYear(date) - 1)
    [] frequency = "custom"      ->
         IF Truthy(customDays) THEN setDate(date, getDate(date) - customDays)
                               ELSE date
    [] OTHER                     -> date

subtractBillingCycle(date, frequency, customDays) ==
  CASE frequency = "monthly"     -> setMonth(date, getMonth(date) - 1)
    [] frequency = "quarterly"   -> setMonth(date, getMonth(date) - 3)
    [] frequency = "half-yearly" -> setMonth(date, getMonth(date) - 6)
    [] frequency = "yearly"      -> setFullYear(date, getFullYear(date) - 1)
    [] frequency = "custom"      ->
         IF Truthy(customDays) THEN setDate(date, getDate(date) - customDays)
                               ELSE date
    [] OTHER                     -> date

\* const progress = (elapsed / totalTime) * 100
cycleProgress(nextBilling, prevBilling, today) ==
  Times(Divide(today - prevBilling, nextBilling - prevBilling), 100)

\* Faulty variant (sensitivity of C12): the progress is returned as computed.
getBillingCycleProgress_Unclamped(subscription, today) ==
  LET nextBilling == getNextBillingDate(subscription, today)
  IN  IF nextBilling.threw THEN nextBilling
      ELSE Return(cycleProgress(nextBilling.value,
                                subtractBillingCycle(nextBilling.value, subscription.frequency,
                                                     subscription.customFrequencyDays),
                                today))

\* today is the value of new Date() in the call
getBillingCycleProgress(subscription, today) ==
  LET nextBilling == getNextBillingDate(subscription, today)
  IN  IF nextBilling.threw THEN nextBilling
      ELSE Return(MathMax(Num(0), MathMin(Num(100),
             cycleProgress(nextBilling.value,
                           subtractBillingCycle(nextBilling.value, subscription.frequency,
                                                subscription.customFrequencyDays),
                           today))))

rates ==
  [USD |-> Frac(1, 1), INR |-> Frac(83, 1), EUR |-> Frac(92, 100),
   GBP |-> Frac(79, 100), AUD |-> Frac(152, 100)]

\* Faulty variant (sensitivity of C11): the rates are applied as if every
\* amount were in USD.
convertCurrency_FromUSD(amount, from, to) ==
  FracMul(amount, rates[to])

convertCurrency(amount, from, to) ==
  IF from = to THEN amount
  ELSE LET inUSD == FracDiv(amount, rates[from])
       IN  FracMul(inUSD, rates[to])

\* Faulty variant (sensitivity of C7): the converted amount is summed.
RECURSIVE spendReduce_Converted(_, _, _, _)
spendReduce_Converted(subs, k, total, targetCurrency) ==
  IF k > Len(subs) THEN Return(total)
  ELSE LET sub == subs[k]
           monthlyAmount == getMonthlyEquivalent(sub)
           convertedAmount == convertCurrency(monthlyAmount.value, sub.currency,
                                              targetCurrency)
       IN  IF monthlyAmount.threw THEN monthlyAmount
           ELSE spendReduce_Converted(subs, k + 1, FracAdd(total, convertedAmount),
                                      targetCurrency)

\* .reduce((total, sub) => ..., 0) over the elements k.. of subs
RECURSIVE spendReduce(_, _, _, _)
spendReduce(subs, k, total, targetCurrency) ==
  IF k > Len(subs) THEN Return(total)
  ELSE LET sub == subs[k]
           monthlyAmount == getMonthlyEquivalent(sub)
           convertedAmount == convertCurrency(monthlyAmount.value, sub.currency,
                                              targetCurrency)
       IN  IF monthlyAmount.threw THEN monthlyAmount
           ELSE spendReduce(subs, k + 1, FracAdd(total, monthlyAmount.value),
                            targetCurrency)

calculateTotalMonthlySpend(subs, targetCurrency) ==
  spendReduce(SelectSeq(subs, LAMBDA sub : ~sub.isDeleted), 1, Num(0),
              targetCurrency)

\* Faulty variant (sensitivity of C9): the soft-delete flag is not looked at.
isActive_IgnoresDeleted(subscription, today) ==
  IF subscription.isOneTime /\ Truthy(subscription.cycleLimit)
  THEN LET endDate == getSubscriptionEndDate(subscription)
       IN  IF endDate.threw THEN endDate
           ELSE Return(today < endDate.value)
  ELSE Return(TRUE)

\* Faulty variant (sensitivity of C10): active up to and at the end instant.
isActive_AtEndInstant(subscription, today) ==
  IF subscription.isDeleted THEN Return(FALSE)
  ELSE IF subscription.isOneTime /\ Truthy(subscription.cycleLimit)
       THEN LET endDate == getSubscriptionEndDate(subscription)
            IN  IF endDate.threw THEN endDate
                ELSE Return(today <= endDate.value)
       ELSE Return(TRUE)

\* Faulty variant (sensitivity of C19): the end date is asked for without
\* looking at isOneTime and cycleLimit first.
isActive_Unguarded(subscription, today) ==
  IF subscription.isDeleted THEN Return(FALSE)
  ELSE LET endDate == getSubscriptionEndDate(subscription)
       IN  IF endDate.threw THEN endDate
           ELSE Return(today < endDate.value)

isActive(subscription, today) ==
  IF subscription.isDeleted THEN Return(FALSE)
  ELSE IF subscription.isOneTime /\ Truthy(subscription.cycleLimit)
       THEN LET endDate == getSubscriptionEndDate(subscription)
            IN  IF endDate.threw THEN endDate
                ELSE Return(today < endDate.value)
       ELSE Return(TRUE)

\* the callback of .filter(...) in getUpcomingSubscriptions
upcomingFilter(sub, days, today) ==
  IF sub.isDeleted THEN FALSE
  ELSE LET daysUntil == getDaysUntilBilling(sub, today).value
       IN  daysUntil >= 0 /\ daysUntil <= days

\* Faulty variant (sensitivity of C8): the comparator subtracts the other way.
upcomingCompare_Descending(a, b, today) ==
  getDaysUntilBilling(b, today).value - getDaysUntilBilling(a, today).value

\* the comparator of .sort(...) in getUpcomingSubscriptions
upcomingCompare(a, b, today) ==
  getDaysUntilBilling(a, today).value - getDaysUntilBilling(b, today).value

\* Array.prototype.sort is stable: an element goes behind every element
\* already placed that does not compare greater than it.
RECURSIVE sortInsert(_, _, _)
sortInsert(sorted, x, today) ==
  IF sorted = <<>> THEN <<x>>
  ELSE IF upcomingCompare(sorted[Len(sorted)], x, today) <= 0
       THEN Append(sorted, x)
       ELSE Append(sortInsert(SubSeq(sorted, 1, Len(sorted) - 1), x, today),
                   sorted[Len(sorted)])

RECURSIVE arraySort(_, _, _, _)
arraySort(arr, k, sorted, today) ==
  IF k > Len(arr) THEN sorted
  ELSE arraySort(arr, k + 1, sortInsert(sorted, arr[k], today), today)

getUpcomingSubscriptions(subs, days, today) ==
  IF \E k \in DOMAIN subs :
       ~subs[k].isDeleted /\ getDaysUntilBilling(subs[k], today).threw
  THEN Throw("Not a one-time subscription")
  ELSE Return(arraySort(SelectSeq(subs, LAMBDA sub : upcomingFilter(sub, days, today)),
                        1, <<>>, today))

-----------------------------------------------------------------------------
(* The calculator on objects.  A Date and an array are objects: setMonth,   *)
(* setFullYear, setDate and sort change the object they are called on.  A   *)
(* heap is a sequence of object values and a reference is a place in it;    *)
(* the object a call is given (subscription.startDate, or the array         *)
(* subscriptions) is at place 1, and what is at place 1 when the call is    *)
(* over is what the caller then finds in that object.  An <f>Obj operator   *)
(* is the function f above with the objects it makes and changes; it gives  *)
(* the heap it leaves and the reference it returns (0 for null).            *)

\* Faulty variant (sensitivity of C17): const newDate = date, the same object.
NewDateOf_SameObject(heap, date) ==
  [heap |-> heap, ref |-> date, threw |-> FALSE]

\* new Date(date): another object with the value of date
NewDateOf(heap, date) ==
  [heap |-> Append(heap, heap[date]), ref |-> Len(heap) + 1, threw |-> FALSE]

\* the set* call of addBillingCycle, on the object newDate
addBillingCycleSet(newDate, frequency, customDays) ==
  [newDate EXCEPT !.heap[newDate.ref] = addBillingCycle(@, frequency, customDays)]

addBillingCycleObj(heap, date, frequency, customDays) ==
  addBillingCycleSet(NewDateOf(heap, date), frequency, customDays)

\* the set* call of subtractBillingCycle, on the object newDate
subtractBillingCycleSet(newDate, frequency, customDays) ==
  [newDate EXCEPT !.heap[newDate.ref] = subtractBillingCycle(@, frequency, customDays)]

subtractBillingCycleObj(heap, date, frequency, customDays) ==
  subtractBillingCycleSet(NewDateOf(heap, date), frequency, customDays)

\* the loops of getSubscriptionEndDate and getCancellationReminderDate:
\* date = addBillingCycle(date, ...) for i up to limit
RECURSIVE cycleLoopObj(_, _, _, _)
cycleLoopObj(date, i, limit, subscription) ==
  IF i < limit
  THEN cycleLoopObj(addBillingCycleObj(date.heap, date.ref, subscription.frequency,
                                       subscription.customFrequencyDays),
                    i + 1, limit, subscription)
  ELSE date

\* let endDate = new Date(startDate), of startDate = new Date(subscription.startDate)
copyOfCopy(startDate) == NewDateOf(startDate.heap, startDate.ref)

getSubscriptionEndDateObj(heap, subscription) ==
  IF ~subscription.isOneTime \/ ~Truthy(subscription.cycleLimit)
  THEN [heap |-> heap, ref |-> 0, threw |-> TRUE]
  ELSE cycleLoopObj(copyOfCopy(NewDateOf(heap, 1)), 0, subscription.cycleLimit,
                    subscription)

getCancellationReminderDateObj(heap, subscription) ==
  IF ~subscription.isOneTime \/ ~Truthy(subscription.cycleLimit)
       \/ subscription.cycleLimit <= 1
  THEN [heap |-> heap, ref |-> 0, threw |-> FALSE]
  ELSE cycleLoopObj(copyOfCopy(NewDateOf(heap, 1)), 0, subscription.cycleLimit - 1,
                    subscription)

\* let nextDate = new Date(year, month, billingDay), advanced if not after today
nextDateObj(heap, subscription, today) ==
  LET nextDate == NewDate(getFullYear(today), getMonth(today), subscription.billingDate)
      made     == [heap |-> Append(heap, nextDate), ref |-> Len(heap) + 1,
                   threw |-> FALSE]
  IN  IF nextDate <= today
      THEN addBillingCycleObj(made.heap, made.ref, subscription.frequency,
                              subscription.customFrequencyDays)
      ELSE made

\* getNextBillingDate from the call of getSubscriptionEndDate on
endedOrNextObj(endDate, subscription, today) ==
  IF endDate.threw THEN endDate
  ELSE IF today > endDate.heap[endDate.ref] THEN endDate
  ELSE nextDateObj(endDate.heap, subscription, today)

\* const startDate = new Date(subscription.startDate) comes first
getNextBillingDateObj(heap, subscription, today) ==
  IF subscription.isOneTime /\ Truthy(subscription.cycleLimit)
  THEN endedOrNextObj(getSubscriptionEndDateObj(NewDateOf(heap, 1).heap, subscription),
                      subscription, today)
  ELSE nextDateObj(NewDateOf(heap, 1).heap, subscription, today)

\* reminderDate = new Date(nextBilling); reminderDate.setDate(...)
reminderDateSet(reminderDate, subscription) ==
  [reminderDate EXCEPT
     !.heap[reminderDate.ref] = setDate(@, getDate(@) - subscription.reminderDaysBefore)]

reminderDateObj(nextBilling, subscription) ==
  IF nextBilling.threw THEN nextBilling
  ELSE reminderDateSet(NewDateOf(nextBilling.heap, nextBilling.ref), subscription)

getReminderDateObj(heap, subscription, today) ==
  IF ~subscription.reminderEnabled THEN [heap |-> heap, ref |-> 0, threw |-> FALSE]
  ELSE reminderDateObj(getNextBillingDateObj(heap, subscription, today), subscription)

\* getDaysUntilBilling makes and changes the objects getNextBillingDate does
getDaysUntilBillingObj(heap, subscription, today) ==
  getNextBillingDateObj(heap, subscription, today)

\* isActive makes and changes the objects getSubscriptionEndDate does
isActiveObj(heap, subscription) ==
  IF subscription.isDeleted THEN [heap |-> heap, ref |-> 0, threw |-> FALSE]
  ELSE IF subscription.isOneTime /\ Truthy(subscription.cycleLimit)
       THEN getSubscriptionEndDateObj(heap, subscription)
       ELSE [heap |-> heap, ref |-> 0, threw |-> FALSE]

\* let prevBilling = new Date(nextBilling); prevBilling = subtractBillingCycle(prevBilling, ...)
prevBillingObj(nextBilling, subscription) ==
  IF nextBilling.threw THEN nextBilling
  ELSE subtractBillingCycleObj(NewDateOf(nextBilling.heap, nextBilling.ref).heap,
                               NewDateOf(nextBilling.heap, nextBilling.ref).ref,
                               subscription.frequency, subscription.customFrequencyDays)

getBillingCycleProgressObj(heap, subscription, today) ==
  prevBillingObj(getNextBillingDateObj(heap, subscription, today), subscription)

\* Array.prototype.filter makes a new array of the elements it keeps
arrayFilterObj(heap, array, days, today) ==
  [heap |-> Append(heap, SelectSeq(heap[array], LAMBDA sub : upcomingFilter(sub, days, today))),
   ref |-> Len(heap) + 1, threw |-> FALSE]

\* Array.prototype.sort sorts the array it is called on and returns it
arraySortObj(array, today) ==
  [array EXCEPT !.heap[array.ref] = arraySort(@, 1, <<>>, today)]

\* the array subscriptions is at place 1
getUpcomingSubscriptionsObj(heap, days, today) ==
  arraySortObj(arrayFilterObj(heap, 1, days, today), today)

\* The subscription a call was given, as the call leaves it: startDate is the
\* only object in it, the other fields are values no function assigns to.
LeftAs(subscription, call) == [subscription EXCEPT !.startDate = call.heap[1]]

\* The array getUpcomingSubscriptions was given, as the call leaves it: what
\* is at place 1, each element that is not soft-deleted as the calls of
\* getDaysUntilBilling on it leave it.
upcomingLeftAs(call, today) ==
  [k \in DOMAIN call.heap[1] |->
     IF call.heap[1][k].isDeleted THEN call.heap[1][k]
     ELSE LeftAs(call.heap[1][k],
                 getDaysUntilBillingObj(<<call.heap[1][k].startDate>>,
                                        call.heap[1][k], today))]

-----------------------------------------------------------------------------
(* The inputs the calculator is exercised on *)

\* The clock runs up to this instant: 2023-03-10 00:00 local time.
WindowEnd == NewDate(2023, 2, 10)

DaysBefore(t, days) == t - days * TicksPerDay

\* The windows calculateSummary asks getUpcomingSubscriptions for
WindowDays == {7, 30}

\* A Subscription as the form builds it: reminders on, three days before.
Subscription(id, amount, currency, billingDate, frequency, customFrequencyDays, startDate, isOneTime, cycleLimit, isDeleted) ==
  [id |-> id, amount |-> amount, currency |-> currency,
   billingDate |-> billingDate, frequency |-> frequency,
   customFrequencyDays |-> customFrequencyDays, startDate |-> startDate,
   isOneTime |-> isOneTime, cycleLimit |-> cycleLimit,
   reminderEnabled |-> TRUE, reminderDaysBefore |-> 3, isDeleted |-> isDeleted]

\* frequency with its customFrequencyDays, as the form validates them:
\* customFrequencyDays is positive for custom and undefined otherwise.
FrequencyChoices ==
  {<<f, Undefined>> : f \in BillingFrequency \ {"custom"}}
    \cup {<<"custom", d>> : d \in 1..MaxCustomDays}

\* 2022-12-31 12:00 and 2023-01-30 00:00
StartDates == {NewDate(2022, 11, 31) + 1, NewDate(2023, 0, 30)}

\* Recurring subscriptions of every frequency and billing day.
BillingSubs ==
  {Subscription(1, Num(1), "INR", billingDate, fc[1], fc[2],
                NewDate(2022, 11, 1), FALSE, Undefined, FALSE) :
     billingDate \in 1..31, fc \in FrequencyChoices}

\* Subscriptions with every combination of isOneTime and cycleLimit.
CycleSubs ==
  {Subscription(1, Num(1), "INR", 1, fc[1], fc[2], startDate, isOneTime,
                cycleLimit, isDeleted) :
     fc \in FrequencyChoices, startDate \in StartDates, isOneTime \in BOOLEAN,
     cycleLimit \in 0..MaxCycleLimit, isDeleted \in BOOLEAN}

\* Amounts in quarters of a currency unit, every frequency (also one the type
\* does not know, and custom without customFrequencyDays).
MoneySubs ==
  {Subscription(1, Frac(q, 4), currency, 1, fc[1], fc[2], NewDate(2022, 11, 1),
                FALSE, Undefined, isDeleted) :
     q \in 0..(4 * MaxAmount), currency \in Currency,
     fc \in FrequencyChoices \cup {<<"weekly", Undefined>>, <<"custom", Undefined>>},
     isDeleted \in BOOLEAN}

\* One-time subscriptions with a positive cycleLimit, as the form validates
\* them; each ends inside the window the clock runs through.
LimitedSubs ==
  {s \in CycleSubs : s.isOneTime /\ Truthy(s.cycleLimit) /\ ~s.isDeleted}

\* Subscriptions with the reminder on or off and every number of days before:
\* recurring ones billed early, in the middle and at the end of the month, and
\* one-time ones of one cycle.
ReminderSubs ==
  {[s EXCEPT !.reminderEnabled = reminderEnabled,
             !.reminderDaysBefore = reminderDaysBefore] :
     s \in {b \in BillingSubs : b.billingDate \in {1, 2, 15, 31}}
            \cup {l \in LimitedSubs : l.cycleLimit = 1},
     reminderEnabled \in BOOLEAN, reminderDaysBefore \in 0..MaxReminderDays}

\* Subscriptions of every frequency that start at any instant of the
\* InverseDays days from 2023-12-01, the leap day 2024-02-29 among them.
InverseSubs ==
  {Subscription(1, Num(1), "INR", 1, fc[1], fc[2], NewDate(2023, 11, 1) + k,
                FALSE, Undefined, FALSE) :
     fc \in FrequencyChoices, k \in 0..(InverseDays * TicksPerDay - 1)}

\* Well-formed subscriptions, as the form submits them: recurring without a
\* cycleLimit, or one-time with a positive cycleLimit.
WellFormed(s) ==
  /\ <<s.frequency, s.customFrequencyDays>> \in FrequencyChoices
  /\ IF s.isOneTime THEN s.cycleLimit > 0 ELSE s.cycleLimit = Undefined

WellFormedSubs == {s \in CycleSubs : WellFormed(s) /\ ~s.isDeleted}

\* What calculateTotalMonthlySpend is given: amounts in several currencies
\* and frequencies, each live or soft-deleted.
SpendProfiles ==
  {Subscription(1, p[1], p[2], 1, p[3], p[4], NewDate(2022, 11, 1), FALSE,
                Undefined, isDeleted) :
     p \in {<<Num(1), "USD", "monthly", Undefined>>,
            <<Num(MaxAmount), "INR", "quarterly", Undefined>>,
            <<Num(1), "EUR", "yearly", Undefined>>,
            <<Num(2), "GBP", "custom", MaxCustomDays>>},
     isDeleted \in BOOLEAN}

\* What getUpcomingSubscriptions is given, the clock being in the last
\* UpcomingHorizonDays days before 2023-03-10: billing days inside and
\* outside either window, a soft-deleted subscription, a one-time
\* subscription that ends on 2023-03-06 12:00 and a 3-day custom one whose one
\* advance from the 5th falls behind the clock.
UpcomingProfiles ==
  {Subscription(1, Num(1), "INR", 7, "monthly", Undefined, NewDate(2022, 11, 1),
                FALSE, Undefined, FALSE),
   Subscription(1, Num(1), "INR", 13, "monthly", Undefined, NewDate(2022, 11, 1),
                FALSE, Undefined, FALSE),
   Subscription(1, Num(1), "INR", 7, "monthly", Undefined, NewDate(2022, 11, 1),
                FALSE, Undefined, TRUE),
   Subscription(1, Num(1), "INR", 6, "monthly", Undefined, NewDate(2023, 1, 6) + 1,
                TRUE, 1, FALSE),
   Subscription(1, Num(1), "INR", 5, "custom", 3, NewDate(2022, 11, 1),
                FALSE, Undefined, FALSE),
   Subscription(1, Num(1), "INR", 25, "yearly", Undefined, NewDate(2022, 11, 1),
                FALSE, Undefined, FALSE)}

\* What the calls are given when it is asked what they leave behind: a
\* monthly subscription billed on the 13th, a one-time subscription of two
\* months that ends on 2023-03-09 12:00 and a 3-day custom one.
FrameProfiles ==
  {Subscription(1, Num(1), "INR", 13, "monthly", Undefined, NewDate(2022, 11, 1),
                FALSE, Undefined, FALSE),
   Subscription(1, Num(2), "USD", 9, "monthly", Undefined, NewDate(2023, 0, 9) + 1,
                TRUE, 2, FALSE),
   Subscription(1, Num(1), "EUR", 5, "custom", 3, NewDate(2022, 11, 1),
                FALSE, Undefined, FALSE)}

\* The arrays of at most MaxSubs subscriptions with these profiles; the id of
\* a subscription is its place in the array.
Arrays(profiles) ==
  {[k \in DOMAIN a |-> [a[k] EXCEPT !.id = k]] :
     a \in UNION {[1..n -> profiles] : n \in 0..MaxSubs}}

-----------------------------------------------------------------------------
(* The calls.  ret is what the last call handed back to its caller; the     *)
(* clock moving on ends the caller's use of it.                             *)

NoCall == [op |-> "none"]

\* no getUpcomingSubscriptions call is in progress
NoPass == [pc |-> "idle"]

\* the store as create() makes it, no notification scheduled, no call made
InitApp ==
  /\ isLoading = FALSE
  /\ isSyncing = FALSE
  /\ error = Null
  /\ summary = Null
  /\ scheduledNotifications = <<>>
  /\ calls = <<>>

Tick ==
  /\ now < WindowEnd
  /\ now' = now + 1
  /\ ret' = NoCall
  /\ UNCHANGED <<subscriptions, storage, pass, app>>

CallGetNextBillingDate ==
  \E i \in DOMAIN subscriptions :
    /\ ret' = [op |-> "getNextBillingDate", i |-> i,
               res |-> getNextBillingDate(subscriptions[i], now)]
    /\ subscriptions' = [subscriptions EXCEPT
         ![i] = LeftAs(@, getNextBillingDateObj(<<@.startDate>>, @, now))]
    /\ UNCHANGED <<now, storage, pass, app>>

CallGetSubscriptionEndDate ==
  \E i \in DOMAIN subscriptions :
    /\ ret' = [op |-> "getSubscriptionEndDate", i |-> i,
               res |-> getSubscriptionEndDate(subscriptions[i])]
    /\ subscriptions' = [subscriptions EXCEPT
         ![i] = LeftAs(@, getSubscriptionEndDateObj(<<@.startDate>>, @))]
    /\ UNCHANGED <<now, storage, pass, app>>

CallGetCancellationReminderDate ==
  \E i \in DOMAIN subscriptions :
    /\ ret' = [op |-> "getCancellationReminderDate", i |-> i,
               res |-> getCancellationReminderDate(subscriptions[i])]
    /\ subscriptions' = [subscriptions EXCEPT
         ![i] = LeftAs(@, getCancellationReminderDateObj(<<@.startDate>>, @))]
    /\ UNCHANGED <<now, storage, pass, app>>

CallGetReminderDate ==
  \E i \in DOMAIN subscriptions :
    /\ ret' = [op |-> "getReminderDate", i |-> i,
               res |-> getReminderDate(subscriptions[i], now)]
    /\ subscriptions' = [subscriptions EXCEPT
         ![i] = LeftAs(@, getReminderDateObj(<<@.startDate>>, @, now))]
    /\ UNCHANGED <<now, storage, pass, app>>

\* addBillingCycle and subtractBillingCycle are private; here each is given
\* the start date of a subscription with its frequency, as the first round of
\* the loop of getSubscriptionEndDate gives it to addBillingCycle.
CallAddBillingCycle ==
  \E i \in DOMAIN subscriptions :
    /\ ret' = [op |-> "addBillingCycle", i |-> i, date |-> subscriptions[i].startDate,
               res |-> addBillingCycle(subscriptions[i].startDate,
                                       subscriptions[i].frequency,
                                       subscriptions[i].customFrequencyDays)]
    /\ subscriptions' = [subscriptions EXCEPT
         ![i] = LeftAs(@, addBillingCycleObj(<<@.startDate>>, 1, @.frequency,
                                            @.customFrequencyDays))]
    /\ UNCHANGED <<now, storage, pass, app>>

CallSubtractBillingCycle ==
  \E i \in DOMAIN subscriptions :
    /\ ret' = [op |-> "subtractBillingCycle", i |-> i, date |-> subscriptions[i].startDate,
               res |-> subtractBillingCycle(subscriptions[i].startDate,
                                            subscriptions[i].frequency,
                                            subscriptions[i].customFrequencyDays)]
    /\ subscriptions' = [subscriptions EXCEPT
         ![i] = LeftAs(@, subtractBillingCycleObj(<<@.startDate>>, 1, @.frequency,
                                                 @.customFrequencyDays))]
    /\ UNCHANGED <<now, storage, pass, app>>

CallGetDaysUntilBilling ==
  \E i \in DOMAIN subscriptions :
    /\ ret' = [op |-> "getDaysUntilBilling", i |-> i,
               res |-> getDaysUntilBilling(subscriptions[i], now)]
    /\ subscriptions' = [subscriptions EXCEPT
         ![i] = LeftAs(@, getDaysUntilBillingObj(<<@.startDate>>, @, now))]
    /\ UNCHANGED <<now, storage, pass, app>>

CallGetMonthlyEquivalent ==
  \E i \in DOMAIN subscriptions :
    /\ ret' = [op |-> "getMonthlyEquivalent", i |-> i,
               res |-> getMonthlyEquivalent(subscriptions[i])]
    /\ UNCHANGED <<subscriptions, now, storage, pass, app>>

CallCalculateTotalMonthlySpend ==
  \E targetCurrency \in Currency :
    /\ ret' = [op |-> "calculateTotalMonthlySpend", targetCurrency |-> targetCurrency,
               res |-> calculateTotalMonthlySpend(subscriptions, targetCurrency)]
    /\ UNCHANGED <<subscriptions, now, storage, pass, app>>

\* convertCurrency is private: it is reached through the callback of
\* calculateTotalMonthlySpend, with the monthly amount and the currency of a
\* live subscription.
CallConvertCurrency ==
  \E i \in DOMAIN subscriptions, targetCurrency \in Currency :
    /\ ~subscriptions[i].isDeleted
    /\ LET monthlyAmount == getMonthlyEquivalent(subscriptions[i]).value
       IN  ret' = [op |-> "convertCurrency", i |-> i, amount |-> monthlyAmount,
                   from |-> subscriptions[i].currency, to |-> targetCurrency,
                   res |-> convertCurrency(monthlyAmount, subscriptions[i].currency,
                                           targetCurrency)]
    /\ UNCHANGED <<subscriptions, now, storage, pass, app>>

CallGetBillingCycleProgress ==
  \E i \in DOMAIN subscriptions :
    /\ ret' = [op |-> "getBillingCycleProgress", i |-> i,
               res |-> getBillingCycleProgress(subscriptions[i], now)]
    /\ subscriptions' = [subscriptions EXCEPT
         ![i] = LeftAs(@, getBillingCycleProgressObj(<<@.startDate>>, @, now))]
    /\ UNCHANGED <<now, storage, pass, app>>

CallGetUpcomingSubscriptions ==
  \E days \in WindowDays :
    /\ ret' = [op |-> "getUpcomingSubscriptions", days |-> days,
               res |-> getUpcomingSubscriptions(subscriptions, days, now)]
    /\ \E call \in {getUpcomingSubscriptionsObj(<<subscriptions>>, days, now)} :
         subscriptions' = upcomingLeftAs(call, now)
    /\ UNCHANGED <<now, storage, pass, app>>

CallIsActive ==
  \E i \in DOMAIN subscriptions :
    /\ ret' = [op |-> "isActive", i |-> i,
               res |-> isActive(subscriptions[i], now)]
    /\ subscriptions' = [subscriptions EXCEPT
         ![i] = LeftAs(@, isActiveObj(<<@.startDate>>, @))]
    /\ UNCHANGED <<now, storage, pass, app>>

-----------------------------------------------------------------------------
(* One call of getUpcomingSubscriptions in steps.  The call reads the clock  *)
(* anew for every getDaysUntilBilling: once for each element the filter      *)
(* looks at, and again when the sort places an element among those already   *)
(* placed; the clock may move on between two steps.  pass.samples is the set *)
(* of the instants read so far.                                              *)

PassStart ==
  \E days \in WindowDays :
    /\ pass.pc = "idle"
    /\ pass' = [pc |-> "filter", days |-> days, k |-> 1, kept |-> <<>>,
                sorted |-> <<>>, samples |-> {}]
    /\ ret' = NoCall
    /\ UNCHANGED <<subscriptions, now, storage, app>>

\* the callback of .filter(...) on element k, or the end of the filter
PassFilterStep ==
  /\ pass.pc = "filter"
  /\ IF pass.k <= Len(subscriptions)
     THEN pass' = [pass EXCEPT
                     !.k = @ + 1,
                     !.kept = IF upcomingFilter(subscriptions[pass.k], pass.days, now)
                              THEN Append(@, subscriptions[pass.k]) ELSE @,
                     !.samples = IF subscriptions[pass.k].isDeleted THEN @
                                 ELSE @ \cup {now}]
     ELSE pass' = [pass EXCEPT !.pc = "sort", !.k = 1]
  /\ UNCHANGED <<subscriptions, now, ret, storage, app>>

\* .sort(...) places kept element k among those placed, or ends
PassSortStep ==
  /\ pass.pc = "sort"
  /\ IF pass.k <= Len(pass.kept)
     THEN pass' = [pass EXCEPT
                     !.k = @ + 1,
                     !.sorted = sortInsert(@, pass.kept[pass.k], now),
                     !.samples = IF pass.sorted = <<>> THEN @ ELSE @ \cup {now}]
     ELSE pass' = [pass EXCEPT !.pc = "done"]
  /\ UNCHANGED <<subscriptions, now, ret, storage, app>>

PassReturn ==
  /\ pass.pc = "done"
  /\ ret' = [op |-> "getUpcomingSubscriptions", days |-> pass.days,
             res |-> Return(pass.sorted)]
  /\ pass' = NoPass
  /\ UNCHANGED <<subscriptions, now, storage, app>>

-----------------------------------------------------------------------------
(* The subscription form, the store and the local storage backend.  Here a  *)
(* date field of a subscription is a Date object [date |-> t] or, in JSON    *)
(* text and in what JSON.parse gives, the string Date.prototype.toISOString  *)
(* makes of it, [iso |-> <<year, month, day, time of day>>] (the model's     *)
(* zone is UTC).                                                             *)

DateObject(t) == [date |-> t]
IsString(x) == "iso" \in DOMAIN x

toISOString(t) ==
  [iso |-> <<CivilFromDays(DayOf(t)).y, CivilFromDays(DayOf(t)).m,
             CivilFromDays(DayOf(t)).d, TimeOfDay(t)>>]

\* Date.parse of an ISO string
DateParse(s) ==
  DaysFromCivil(s.iso[1], s.iso[2], s.iso[3]) * TicksPerDay + s.iso[4]

\* new Date(x).getTime() for x a Date or a string
getTime(x) == IF IsString(x) THEN DateParse(x) ELSE x.date

\* new Date(x) for x a Date or a string
NewDateFrom(x) == DateObject(getTime(x))

\* what JSON.stringify writes for a date field: a Date by its toJSON, a
\* string as it is
stringifyDate(x) == IF IsString(x) THEN x ELSE toISOString(x.date)

\* JSON.parse(JSON.stringify(sub))
jsonSubscription(sub) ==
  [sub EXCEPT !.startDate = stringifyDate(@), !.createdAt = stringifyDate(@),
              !.updatedAt = stringifyDate(@)]

parseSubscription(sub) ==
  [sub EXCEPT !.startDate = NewDateFrom(@), !.createdAt = NewDateFrom(@),
              !.updatedAt = NewDateFrom(@)]

\* Faulty variant (sensitivity of C20): the form stamps every submission.
formStartDate_AlwaysNow(subscription, today) ==
  DateObject(today)

\* startDate: subscription?.startDate || new Date(), the prop subscription
\* being null or a subscription of the store
formStartDate(subscription, today) ==
  IF subscription = Null THEN DateObject(today) ELSE subscription[1].startDate

\* the user of the screens
MOCK_USER_ID == "user_demo_123"

\* the amounts typed into the form
FormAmounts == {Num(1), Num(MaxAmount)}

\* the keys of the object data of handleSubmit that the model has
DataFields ==
  {"userId", "amount", "currency", "billingDate", "frequency", "customFrequencyDays",
   "startDate", "isOneTime", "cycleLimit", "reminderEnabled", "reminderDaysBefore"}

\* the object data of handleSubmit: a monthly subscription of the amount typed
FormData(amount, startDate) ==
  [f \in DataFields |->
     CASE f = "userId"    -> MOCK_USER_ID
       [] f = "amount"    -> amount
       [] f = "startDate" -> startDate
       [] OTHER           -> Subscription(0, amount, "INR", 1, "monthly", Undefined, 0,
                                          FALSE, Undefined, FALSE)[f]]

\* createSubscription: { ...subscription, id, createdAt, updatedAt, isDeleted: false }
newSubscriptionOf(data, id, today) ==
  [f \in DataFields \cup {"id", "createdAt", "updatedAt", "isDeleted"} |->
     CASE f = "id"        -> id
       [] f = "createdAt" -> DateObject(today)
       [] f = "updatedAt" -> DateObject(today)
       [] f = "isDeleted" -> FALSE
       [] OTHER           -> data[f]]

\* updateSubscription: { ...allSubscriptions[index], ...updates, updatedAt: new Date() }
mergedWith(stored, updates, today) ==
  [f \in DOMAIN stored |->
     IF f = "updatedAt" THEN DateObject(today)
     ELSE IF f \in DOMAIN updates THEN updates[f]
     ELSE stored[f]]

\* allSubscriptions.findIndex(sub => sub.id === subscriptionId), 0 for -1
findIndex(allSubscriptions, subscriptionId) ==
  IF \E k \in DOMAIN allSubscriptions : allSubscriptions[k].id = subscriptionId
  THEN CHOOSE k \in DOMAIN allSubscriptions :
         /\ allSubscriptions[k].id = subscriptionId
         /\ \A j \in 1..(k - 1) : allSubscriptions[j].id # subscriptionId
  ELSE 0

\* what is typed into the form: the amount, one-time with its cycle limit or
\* not, the reminder on or off
FormEntries ==
  {[amount |-> Num(1), isOneTime |-> FALSE, cycleLimit |-> Undefined,
    reminderEnabled |-> TRUE],
   [amount |-> Num(MaxAmount), isOneTime |-> TRUE, cycleLimit |-> 2,
    reminderEnabled |-> TRUE],
   [amount |-> Num(1), isOneTime |-> FALSE, cycleLimit |-> Undefined,
    reminderEnabled |-> FALSE]}

\* the object data of handleSubmit for what is typed
FormDataOf(entry, startDate) ==
  [FormData(entry.amount, startDate) EXCEPT
     !.isOneTime = entry.isOneTime, !.cycleLimit = entry.cycleLimit,
     !.reminderEnabled = entry.reminderEnabled]

\* The methods of LocalStorageBackendService between the two storage
\* operations of a call: data is what getItem gave, parsed; setItem is the
\* list the method then writes (Null if it writes nothing) and value is how
\* the method completes once the write is done.
getSubscriptions(data, userId) ==
  [k \in DOMAIN SelectSeq(data, LAMBDA sub : sub.userId = userId /\ ~sub.isDeleted) |->
     parseSubscription(
       SelectSeq(data, LAMBDA sub : sub.userId = userId /\ ~sub.isDeleted)[k])]

createSubscription(data, subscription, id, today) ==
  [setItem |-> Some(Append(data, jsonSubscription(newSubscriptionOf(subscription, id, today)))),
   value   |-> Return(newSubscriptionOf(subscription, id, today))]

updateSubscription(data, subscriptionId, updates, today) ==
  IF findIndex(data, subscriptionId) = 0
  THEN [setItem |-> Null, value |-> Throw("Subscription not found")]
  ELSE [setItem |-> Some([data EXCEPT ![findIndex(data, subscriptionId)] =
                            jsonSubscription(mergedWith(@, updates, today))]),
        value   |-> Return(parseSubscription(
                             mergedWith(data[findIndex(data, subscriptionId)],
                                        updates, today)))]

deleteSubscription(data, subscriptionId, today) ==
  IF findIndex(data, subscriptionId) = 0
  THEN [setItem |-> Null, value |-> Return(Null)]
  ELSE [setItem |-> Some([data EXCEPT ![findIndex(data, subscriptionId)] =
                            [@ EXCEPT !.isDeleted = TRUE,
                                      !.updatedAt = toISOString(today)]]),
        value   |-> Return(Null)]

syncSubscriptions(data, userId, localSubscriptions) ==
  [setItem |-> Some(SelectSeq(data, LAMBDA sub : sub.userId # userId)
                      \o [k \in DOMAIN localSubscriptions |->
                            jsonSubscription(localSubscriptions[k])]),
   value   |-> Return(localSubscriptions)]

\* A subscription of the store as the calculator reads it: the calculator
\* takes new Date(subscription.startDate), the instant of a Date or of a
\* string alike; object is the subscription read.
asRead(subscription) ==
  [f \in DOMAIN subscription \cup {"object"} |->
     CASE f = "object"    -> subscription
       [] f = "startDate" -> getTime(subscription.startDate)
       [] OTHER           -> subscription[f]]

\* subscriptions.filter((sub) => SubscriptionCalculator.isActive(sub))
activeSubscriptions(subs, today) ==
  SelectSeq([k \in DOMAIN subs |-> asRead(subs[k])],
            LAMBDA sub : isActive(sub, today).value)

\* the subscriptions getUpcomingSubscriptions returns
upcomingOf(active, days, today) ==
  CHOOSE objects \in
    {[k \in DOMAIN upcoming |-> upcoming[k].object] :
       upcoming \in {getUpcomingSubscriptions(active, days, today).value}} : TRUE

\* the summary calculateSummary sets for the subscriptions of the store
calculateSummary(subs, today) ==
  CHOOSE summaryOf \in
    {[totalMonthlySpend        |-> calculateTotalMonthlySpend(active, "USD"),
      totalActiveSubscriptions |-> Len(active),
      upcomingInNext7Days      |-> upcomingOf(active, 7, today),
      upcomingThisMonth        |-> upcomingOf(active, 30, today)] :
       active \in {activeSubscriptions(subs, today)}} : TRUE

-----------------------------------------------------------------------------
(* NotificationScheduler.  scheduledNotifications is a Map: a function from  *)
(* the keys it has to the notifications under them.  A key `billing_${id}`   *)
(* or `cancel_${id}` is the pair of its prefix and the id.  The operators    *)
(* take the map and give the map the call leaves; title and body of a        *)
(* notification are not modelled.                                            *)

\* Faulty variant (sensitivity of C25): the key is the prefix alone.
billingId_NoId(subscriptionId) == <<"billing_", 0>>

billingId(subscriptionId) == <<"billing_", subscriptionId>>
cancelId(subscriptionId) == <<"cancel_", subscriptionId>>

\* Map.prototype.set and Map.prototype.delete
MapSet(map, key, value) ==
  [k \in DOMAIN map \cup {key} |-> IF k = key THEN value ELSE map[k]]
MapDelete(map, key) ==
  [k \in DOMAIN map \ {key} |-> map[k]]

cancelForSubscription(scheduled, subscriptionId) ==
  MapDelete(MapDelete(scheduled, billingId(subscriptionId)), cancelId(subscriptionId))

cancelAll(scheduled) == <<>>

scheduleBillingReminder(scheduled, subscription, today) ==
  LET reminderDate == getReminderDate(asRead(subscription), today).value
  IN  IF reminderDate = Null THEN scheduled
      ELSE MapSet(scheduled, billingId(subscription.id),
                  [id |-> billingId(subscription.id),
                   subscriptionId |-> subscription.id,
                   scheduledDate |-> DateObject(reminderDate[1]),
                   type |-> "billing_reminder"])

scheduleCancellationAlert(scheduled, subscription) ==
  LET cancellationDate == getCancellationReminderDate(asRead(subscription)).value
  IN  IF cancellationDate = Null THEN scheduled
      ELSE MapSet(scheduled, cancelId(subscription.id),
                  [id |-> cancelId(subscription.id),
                   subscriptionId |-> subscription.id,
                   scheduledDate |-> DateObject(cancellationDate[1]),
                   type |-> "cancellation_alert"])

\* Faulty variant (sensitivity of C26): the notifications there are stay when
\* the reminder is off.
scheduleForSubscription_NoCancel(scheduled, subscription, today) ==
  CHOOSE left \in
    {IF ~subscription.reminderEnabled THEN cancelled
     ELSE IF getReminderDate(asRead(subscription), today).threw THEN cancelled
     ELSE IF subscription.isOneTime /\ Truthy(subscription.cycleLimit)
     THEN scheduleCancellationAlert(
            scheduleBillingReminder(cancelled, subscription, today), subscription)
     ELSE scheduleBillingReminder(cancelled, subscription, today) :
       cancelled \in {scheduled}} : TRUE

\* the call run to its end without another call in between; an Error thrown
\* by getReminderDate is caught and the call ends there
scheduleForSubscription(scheduled, subscription, today) ==
  CHOOSE left \in
    {IF ~subscription.reminderEnabled THEN cancelled
     ELSE IF getReminderDate(asRead(subscription), today).threw THEN cancelled
     ELSE IF subscription.isOneTime /\ Truthy(subscription.cycleLimit)
     THEN scheduleCancellationAlert(
            scheduleBillingReminder(cancelled, subscription, today), subscription)
     ELSE scheduleBillingReminder(cancelled, subscription, today) :
       cancelled \in {cancelForSubscription(scheduled, subscription.id)}} : TRUE

\* for (const subscription of subscriptions) if (isActive(subscription)) ...
RECURSIVE rescheduleLoop(_, _, _, _)
rescheduleLoop(scheduled, subs, k, today) ==
  IF k > Len(subs) THEN scheduled
  ELSE CHOOSE left \in
         {rescheduleLoop(next, subs, k + 1, today) :
            next \in {IF isActive(asRead(subs[k]), today).value
                      THEN scheduleForSubscription(scheduled, subs[k], today)
                      ELSE scheduled}} : TRUE

rescheduleAll(scheduled, subs, today) ==
  rescheduleLoop(cancelAll(scheduled), subs, 1, today)

\* What the scheduler is given: a monthly subscription, the same with the
\* reminder off, a soft-deleted one, and a one-time subscription of two months
\* that ends on 2023-03-09 12:00, each with its startDate as a Date.
SchedulerProfiles ==
  [k \in 1..4 |->
     [<<Subscription(1, Num(1), "INR", 13, "monthly", Undefined,
                     NewDate(2022, 11, 1), FALSE, Undefined, FALSE),
        [Subscription(2, Num(1), "INR", 13, "monthly", Undefined,
                      NewDate(2022, 11, 1), FALSE, Undefined, FALSE)
           EXCEPT !.reminderEnabled = FALSE],
        Subscription(3, Num(1), "INR", 13, "monthly", Undefined,
                     NewDate(2022, 11, 1), FALSE, Undefined, TRUE),
        Subscription(4, Num(2), "USD", 9, "monthly", Undefined,
                     NewDate(2023, 0, 9) + 1, TRUE, 2, FALSE)>>[k]
      EXCEPT !.startDate = DateObject(@)]]

\* the subsequences of an array
SubArrays(array) ==
  {SelectSeq(array, LAMBDA sub : sub.id \in ids) :
     ids \in SUBSET {array[k].id : k \in DOMAIN array}}

\* scheduleForSubscription of a subscription of the array, as it is or with
\* the reminder switched
CallScheduleForSubscription ==
  \E i \in DOMAIN subscriptions, reminderEnabled \in BOOLEAN :
    \E subscription \in {[subscriptions[i] EXCEPT !.reminderEnabled = reminderEnabled]} :
      /\ scheduledNotifications' =
           scheduleForSubscription(scheduledNotifications, subscription, now)
      /\ ret' = [op |-> "scheduleForSubscription", subscription |-> subscription]
      /\ UNCHANGED <<subscriptions, now, storage, pass, isLoading, isSyncing,
                     error, summary, calls>>

CallCancelForSubscription ==
  \E i \in DOMAIN subscriptions :
    /\ scheduledNotifications' =
         cancelForSubscription(scheduledNotifications, subscriptions[i].id)
    /\ ret' = [op |-> "cancelForSubscription", subscriptionId |-> subscriptions[i].id]
    /\ UNCHANGED <<subscriptions, now, storage, pass, isLoading, isSyncing,
                   error, summary, calls>>

\* rescheduleAll of some of the subscriptions of the array
CallRescheduleAll ==
  \E subs \in SubArrays(subscriptions) :
    /\ scheduledNotifications' = rescheduleAll(scheduledNotifications, subs, now)
    /\ ret' = [op |-> "rescheduleAll", subscriptions |-> subs]
    /\ UNCHANGED <<subscriptions, now, storage, pass, isLoading, isSyncing,
                   error, summary, calls>>

CallCancelAll ==
  /\ scheduledNotifications' = cancelAll(scheduledNotifications)
  /\ ret' = [op |-> "cancelAll"]
  /\ UNCHANGED <<subscriptions, now, storage, pass, isLoading, isSyncing,
                 error, summary, calls>>

-----------------------------------------------------------------------------
(* The handlers of the store, each run from its call to its end without      *)
(* another call in between.                                                  *)

\* handleSubmit of the form opened without a subscription: addSubscription
\* of the store, createSubscription of the backend
SubmitNew ==
  \E amount \in FormAmounts :
    /\ Len(storage) < MaxStored
    /\ \E newSubscription \in
           {newSubscriptionOf(FormData(amount, formStartDate(Null, now)),
                              Len(storage) + 1, now)} :
         /\ storage' = Append(storage, jsonSubscription(newSubscription))
         /\ subscriptions' = Append(subscriptions, newSubscription)
         /\ summary' = calculateSummary(Append(subscriptions, newSubscription), now)
         /\ scheduledNotifications' =
              scheduleForSubscription(scheduledNotifications, newSubscription, now)
         /\ ret' = [op |-> "addSubscription", id |-> newSubscription.id,
                    res |-> Return(newSubscription)]
    /\ isLoading' = FALSE
    /\ error' = Null
    /\ UNCHANGED <<now, pass, isSyncing, calls>>

\* handleSubmit of the form opened on subscription i of the store:
\* updateSubscription of the store, updateSubscription of the backend
SubmitEdit ==
  \E i \in DOMAIN subscriptions, amount \in FormAmounts :
    \E updates \in {FormData(amount, formStartDate(Some(subscriptions[i]), now))},
       index \in {findIndex(storage, subscriptions[i].id)} :
      /\ IF index = 0
         THEN /\ ret' = [op |-> "updateSubscription", id |-> subscriptions[i].id,
                         res |-> Throw("Subscription not found")]
              /\ error' = Some("Subscription not found")
              /\ UNCHANGED <<subscriptions, storage, summary, scheduledNotifications>>
         ELSE \E merged \in {mergedWith(storage[index], updates, now)} :
                /\ storage' = [storage EXCEPT ![index] = jsonSubscription(merged)]
                /\ \E updated \in
                       {[k \in DOMAIN subscriptions |->
                           IF subscriptions[k].id = subscriptions[i].id
                           THEN parseSubscription(merged) ELSE subscriptions[k]]} :
                     /\ subscriptions' = updated
                     /\ summary' = calculateSummary(updated, now)
                /\ scheduledNotifications' =
                     scheduleForSubscription(scheduledNotifications,
                                             parseSubscription(merged), now)
                /\ error' = Null
                /\ ret' = [op |-> "updateSubscription", id |-> subscriptions[i].id,
                           res |-> Return(parseSubscription(merged))]
      /\ isLoading' = FALSE
      /\ UNCHANGED <<now, pass, isSyncing, calls>>

\* fetchSubscriptions of the store, getSubscriptions of the backend
FetchSubscriptions ==
  \E fetched \in {getSubscriptions(storage, MOCK_USER_ID)} :
    /\ subscriptions' = fetched
    /\ isLoading' = FALSE
    /\ error' = Null
    /\ summary' = calculateSummary(fetched, now)
    /\ scheduledNotifications' = rescheduleAll(scheduledNotifications, fetched, now)
    /\ ret' = [op |-> "fetchSubscriptions"]
    /\ UNCHANGED <<now, storage, pass, isSyncing, calls>>

\* the persist middleware at the start of the app: the store's subscriptions
\* come back from their JSON text, the dates as strings
Rehydrate ==
  /\ subscriptions' = [k \in DOMAIN subscriptions |-> jsonSubscription(subscriptions[k])]
  /\ isLoading' = FALSE
  /\ isSyncing' = FALSE
  /\ error' = Null
  /\ ret' = [op |-> "rehydrate"]
  /\ UNCHANGED <<now, storage, pass, summary, scheduledNotifications, calls>>

-----------------------------------------------------------------------------
(* The calls of the store and of the backend step by step.  A call of an     *)
(* async function runs up to an await, where calls in flight take turns.     *)
(* calls holds every call made so far, with where it stands:                 *)
(*   "getBackendService"  syncWithBackend before it takes the store's list   *)
(*   "getItem"            the backend method waits for AsyncStorage.getItem  *)
(*   "setItem"            the backend method waits for AsyncStorage.setItem  *)
(*   "resolved"           the backend method is over, the store goes on      *)
(*   "reschedule"         rescheduleAll is at subscription k of its list     *)
(*   "schedule", "alert"  scheduleForSubscription after its first, second    *)
(*                        await                                              *)
(*   "done"               the call is over, res is how it completed          *)
(* rejected is the message of the storage operation or backend method that   *)
(* failed in the call, Null if none did.                                     *)
(* A call that is direct was made on the backend, not through the store.     *)
(* In the other store actions await getBackendService() comes before         *)
(* anything is read, so they start at "getItem".                             *)

Call(op, direct, pc, id, input) ==
  [op |-> op, direct |-> direct, pc |-> pc, id |-> id, input |-> input,
   setItem |-> Null, value |-> Null, list |-> <<>>, k |-> 0,
   subscription |-> Null, rejected |-> Null, res |-> Null]

InFlight == {c \in DOMAIN calls : calls[c].pc # "done"}

\* a call can be made: at most limit calls are in flight at a time
CanCall(limit) == Len(calls) < MaxCalls /\ Cardinality(InFlight) < limit

\* the actions of the store that set isLoading
Loading == {"fetchSubscriptions", "addSubscription", "updateSubscription",
            "deleteSubscription"}

\* fetchSubscriptions: set({ isLoading: true, error: null })
StoreFetchSubscriptions(limit) ==
  /\ CanCall(limit)
  /\ isLoading' = TRUE
  /\ error' = Null
  /\ calls' = Append(calls, Call("fetchSubscriptions", FALSE, "getItem",
                                 MOCK_USER_ID, Null))
  /\ UNCHANGED <<subscriptions, now, ret, storage, pass, isSyncing, summary,
                 scheduledNotifications>>

\* addSubscription, from the form opened without a subscription
StoreAddSubscription(limit) ==
  /\ CanCall(limit)
  /\ \E entry \in FormEntries :
       calls' = Append(calls, Call("addSubscription", FALSE, "getItem", Len(calls) + 1,
                                   FormDataOf(entry, formStartDate(Null, now))))
  /\ isLoading' = TRUE
  /\ error' = Null
  /\ UNCHANGED <<subscriptions, now, ret, storage, pass, isSyncing, summary,
                 scheduledNotifications>>

\* updateSubscription, from the form opened on subscription i of the store
StoreUpdateSubscription(limit) ==
  /\ CanCall(limit)
  /\ \E i \in DOMAIN subscriptions, entry \in FormEntries :
       calls' = Append(calls,
                       Call("updateSubscription", FALSE, "getItem", subscriptions[i].id,
                            FormDataOf(entry, formStartDate(Some(subscriptions[i]), now))))
  /\ isLoading' = TRUE
  /\ error' = Null
  /\ UNCHANGED <<subscriptions, now, ret, storage, pass, isSyncing, summary,
                 scheduledNotifications>>

\* deleteSubscription of subscription i of the store
StoreDeleteSubscription(limit) ==
  /\ CanCall(limit)
  /\ \E i \in DOMAIN subscriptions :
       calls' = Append(calls, Call("deleteSubscription", FALSE, "getItem",
                                   subscriptions[i].id, Null))
  /\ isLoading' = TRUE
  /\ error' = Null
  /\ UNCHANGED <<subscriptions, now, ret, storage, pass, isSyncing, summary,
                 scheduledNotifications>>

\* syncWithBackend: set({ isSyncing: true, error: null })
StoreSyncWithBackend(limit) ==
  /\ CanCall(limit)
  /\ isSyncing' = TRUE
  /\ error' = Null
  /\ calls' = Append(calls, Call("syncWithBackend", FALSE, "getBackendService",
                                 MOCK_USER_ID, Null))
  /\ UNCHANGED <<subscriptions, now, ret, storage, pass, isLoading, summary,
                 scheduledNotifications>>

\* syncWithBackend after await getBackendService():
\* const localSubscriptions = get().subscriptions
SyncTakesLocal ==
  \E c \in DOMAIN calls :
    /\ calls[c].pc = "getBackendService"
    /\ calls' = [calls EXCEPT ![c].pc = "getItem", ![c].input = subscriptions]
    /\ UNCHANGED <<subscriptions, now, ret, storage, pass, isLoading, isSyncing,
                   error, summary, scheduledNotifications>>

\* the calls made on the backend itself
BackendCreateSubscription ==
  /\ CanCall(MaxInFlight)
  /\ \E entry \in FormEntries :
       calls' = Append(calls, Call("addSubscription", TRUE, "getItem", Len(calls) + 1,
                                   FormDataOf(entry, formStartDate(Null, now))))
  /\ UNCHANGED <<subscriptions, now, ret, storage, pass, isLoading, isSyncing,
                 error, summary, scheduledNotifications>>

BackendUpdateSubscription ==
  /\ CanCall(MaxInFlight)
  /\ \E k \in DOMAIN storage, entry \in FormEntries :
       calls' = Append(calls,
                       Call("updateSubscription", TRUE, "getItem", storage[k].id,
                            FormDataOf(entry, NewDateFrom(storage[k].startDate))))
  /\ UNCHANGED <<subscriptions, now, ret, storage, pass, isLoading, isSyncing,
                 error, summary, scheduledNotifications>>

BackendDeleteSubscription ==
  /\ CanCall(MaxInFlight)
  /\ \E k \in DOMAIN storage :
       calls' = Append(calls, Call("deleteSubscription", TRUE, "getItem",
                                   storage[k].id, Null))
  /\ UNCHANGED <<subscriptions, now, ret, storage, pass, isLoading, isSyncing,
                 error, summary, scheduledNotifications>>

\* syncSubscriptions of the list getSubscriptions gives at the call
BackendSyncSubscriptions ==
  /\ CanCall(MaxInFlight)
  /\ calls' = Append(calls, Call("syncWithBackend", TRUE, "getItem", MOCK_USER_ID,
                                 getSubscriptions(storage, MOCK_USER_ID)))
  /\ UNCHANGED <<subscriptions, now, ret, storage, pass, isLoading, isSyncing,
                 error, summary, scheduledNotifications>>

\* No call has a continuation ready to run.  The continuation of an await
\* whose promise is resolved is a promise job, and all promise jobs run
\* before the callback of the next storage operation does: a storage
\* operation completes only when every call in flight waits for storage.
Settled == \A c \in DOMAIN calls : calls[c].pc \in {"getItem", "setItem", "done"}

\* what the backend method of a call does with the data getItem gave
backendMethod(call, data, today) ==
  CASE call.op = "fetchSubscriptions" ->
         [setItem |-> Null, value |-> Return(getSubscriptions(data, call.id))]
    [] call.op = "addSubscription" ->
         createSubscription(data, call.input, call.id, today)
    [] call.op = "updateSubscription" ->
         updateSubscription(data, call.id, call.input, today)
    [] call.op = "deleteSubscription" ->
         deleteSubscription(data, call.id, today)
    [] call.op = "syncWithBackend" ->
         syncSubscriptions(data, call.id, call.input)

\* The backend method of call c throws message.  On a direct call that is how
\* the call completes.  In the store the catch block sets error and clears
\* isLoading (isSyncing in syncWithBackend) and throws again, but not in
\* syncWithBackend.
Thrown(c, message) ==
  /\ calls' = [calls EXCEPT ![c].pc = "done", ![c].rejected = Some(message),
                            ![c].res = IF calls[c].op = "syncWithBackend" /\ ~calls[c].direct
                                       THEN Return(Null) ELSE Throw(message)]
  /\ ret' = [op |-> calls[c].op, id |-> calls[c].id,
             res |-> IF calls[c].op = "syncWithBackend" /\ ~calls[c].direct
                     THEN Return(Null) ELSE Throw(message)]
  /\ IF calls[c].direct
     THEN UNCHANGED <<error, isLoading, isSyncing>>
     ELSE /\ error' = Some(message)
          /\ IF calls[c].op = "syncWithBackend"
             THEN isSyncing' = FALSE /\ UNCHANGED isLoading
             ELSE isLoading' = FALSE /\ UNCHANGED isSyncing
  /\ UNCHANGED <<subscriptions, now, storage, pass, summary, scheduledNotifications>>

\* AsyncStorage.getItem gives the item; the method goes on to its setItem, or
\* to its end if it writes nothing
GetItemResolves ==
  \E c \in DOMAIN calls :
    /\ calls[c].pc = "getItem"
    /\ Settled
    /\ \E method \in {backendMethod(calls[c], storage, now)} :
         IF method.value.threw
         THEN Thrown(c, method.value.value)
         ELSE /\ calls' = [calls EXCEPT
                   ![c].pc = IF method.setItem # Null THEN "setItem"
                             ELSE IF calls[c].direct THEN "done" ELSE "resolved",
                   ![c].setItem = method.setItem,
                   ![c].value = method.value.value,
                   ![c].res = IF method.setItem = Null /\ calls[c].direct
                              THEN method.value ELSE Null]
              /\ ret' = IF method.setItem = Null /\ calls[c].direct
                        THEN [op |-> calls[c].op, id |-> calls[c].id, res |-> method.value]
                        ELSE ret
              /\ UNCHANGED <<subscriptions, now, storage, pass, isLoading, isSyncing,
                             error, summary, scheduledNotifications>>

\* AsyncStorage.getItem fails (or JSON.parse of the item does).
\* getSubscriptions catches that and returns []; the other methods throw.
GetItemRejects ==
  \E c \in DOMAIN calls :
    /\ calls[c].pc = "getItem"
    /\ Settled
    /\ IF calls[c].op = "fetchSubscriptions"
       THEN /\ calls' = [calls EXCEPT ![c].pc = "resolved", ![c].value = <<>>,
                                      ![c].rejected = Some("getItem failed")]
            /\ UNCHANGED <<subscriptions, now, ret, storage, pass, isLoading,
                           isSyncing, error, summary, scheduledNotifications>>
       ELSE Thrown(c, "getItem failed")

\* AsyncStorage.setItem writes the item and the method returns
SetItemResolves ==
  \E c \in DOMAIN calls :
    /\ calls[c].pc = "setItem"
    /\ Settled
    /\ storage' = calls[c].setItem[1]
    /\ calls' = [calls EXCEPT
         ![c].pc = IF calls[c].direct THEN "done" ELSE "resolved",
         ![c].res = IF calls[c].direct THEN Return(calls[c].value) ELSE Null]
    /\ ret' = IF calls[c].direct
              THEN [op |-> calls[c].op, id |-> calls[c].id,
                    res |-> Return(calls[c].value)]
              ELSE ret
    /\ UNCHANGED <<subscriptions, now, pass, isLoading, isSyncing, error, summary,
                   scheduledNotifications>>

\* AsyncStorage.setItem fails and nothing is written
SetItemRejects ==
  \E c \in DOMAIN calls :
    /\ calls[c].pc = "setItem"
    /\ Settled
    /\ Thrown(c, "setItem failed")

\* The store goes on after its await of the backend method: it sets its
\* state, calculates the summary and calls the scheduler, which runs up to
\* its first await.
FetchContinues ==
  \E c \in DOMAIN calls :
    /\ calls[c].pc = "resolved" /\ calls[c].op = "fetchSubscriptions"
    /\ subscriptions' = calls[c].value
    /\ isLoading' = FALSE
    /\ summary' = calculateSummary(calls[c].value, now)
    /\ scheduledNotifications' = cancelAll(scheduledNotifications)
    /\ calls' = [calls EXCEPT ![c].pc = "reschedule", ![c].list = calls[c].value,
                              ![c].k = 1]
    /\ UNCHANGED <<now, ret, storage, pass, isSyncing, error>>

AddContinues ==
  \E c \in DOMAIN calls :
    /\ calls[c].pc = "resolved" /\ calls[c].op = "addSubscription"
    /\ subscriptions' = Append(subscriptions, calls[c].value)
    /\ isLoading' = FALSE
    /\ summary' = calculateSummary(Append(subscriptions, calls[c].value), now)
    /\ scheduledNotifications' =
         cancelForSubscription(scheduledNotifications, calls[c].value.id)
    /\ calls' = [calls EXCEPT ![c].pc = "schedule", ![c].subscription = calls[c].value]
    /\ UNCHANGED <<now, ret, storage, pass, isSyncing, error>>

UpdateContinues ==
  \E c \in DOMAIN calls :
    /\ calls[c].pc = "resolved" /\ calls[c].op = "updateSubscription"
    /\ \E updated \in {[k \in DOMAIN subscriptions |->
                          IF subscriptions[k].id = calls[c].id
                          THEN calls[c].value ELSE subscriptions[k]]} :
         /\ subscriptions' = updated
         /\ summary' = calculateSummary(updated, now)
    /\ isLoading' = FALSE
    /\ scheduledNotifications' =
         cancelForSubscription(scheduledNotifications, calls[c].value.id)
    /\ calls' = [calls EXCEPT ![c].pc = "schedule", ![c].subscription = calls[c].value]
    /\ UNCHANGED <<now, ret, storage, pass, isSyncing, error>>

DeleteContinues ==
  \E c \in DOMAIN calls :
    /\ calls[c].pc = "resolved" /\ calls[c].op = "deleteSubscription"
    /\ \E filtered \in {SelectSeq(subscriptions, LAMBDA sub : sub.id # calls[c].id)} :
         /\ subscriptions' = filtered
         /\ summary' = calculateSummary(filtered, now)
    /\ isLoading' = FALSE
    /\ scheduledNotifications' =
         cancelForSubscription(scheduledNotifications, calls[c].id)
    /\ calls' = [calls EXCEPT ![c].pc = "done", ![c].res = Return(Null)]
    /\ ret' = [op |-> calls[c].op, id |-> calls[c].id, res |-> Return(Null)]
    /\ UNCHANGED <<now, storage, pass, isSyncing, error>>

SyncContinues ==
  \E c \in DOMAIN calls :
    /\ calls[c].pc = "resolved" /\ calls[c].op = "syncWithBackend"
    /\ subscriptions' = calls[c].value
    /\ isSyncing' = FALSE
    /\ summary' = calculateSummary(calls[c].value, now)
    /\ scheduledNotifications' = cancelAll(scheduledNotifications)
    /\ calls' = [calls EXCEPT ![c].pc = "reschedule", ![c].list = calls[c].value,
                              ![c].k = 1]
    /\ UNCHANGED <<now, ret, storage, pass, isLoading, error>>

\* scheduleForSubscription of call c is over: rescheduleAll goes to the next
\* subscription of its list, addSubscription and updateSubscription return
Scheduled(c) ==
  IF calls[c].op \in {"fetchSubscriptions", "syncWithBackend"}
  THEN /\ calls' = [calls EXCEPT ![c].pc = "reschedule", ![c].k = @ + 1]
       /\ UNCHANGED ret
  ELSE /\ calls' = [calls EXCEPT ![c].pc = "done", ![c].res = Return(Null)]
       /\ ret' = [op |-> calls[c].op, id |-> calls[c].id, res |-> Return(Null)]

\* rescheduleAll at subscription k of its list: it skips one that is not
\* active and calls scheduleForSubscription on one that is, which runs up to
\* its first await; behind the list the call of the store returns
RescheduleNext ==
  \E c \in DOMAIN calls :
    /\ calls[c].pc = "reschedule"
    /\ IF calls[c].k > Len(calls[c].list)
       THEN /\ calls' = [calls EXCEPT ![c].pc = "done", ![c].res = Return(Null)]
            /\ ret' = [op |-> calls[c].op, id |-> calls[c].id, res |-> Return(Null)]
            /\ UNCHANGED scheduledNotifications
       ELSE IF ~isActive(asRead(calls[c].list[calls[c].k]), now).value
       THEN /\ calls' = [calls EXCEPT ![c].k = @ + 1]
            /\ UNCHANGED <<ret, scheduledNotifications>>
       ELSE /\ scheduledNotifications' =
                 cancelForSubscription(scheduledNotifications,
                                       calls[c].list[calls[c].k].id)
            /\ calls' = [calls EXCEPT ![c].pc = "schedule",
                                      ![c].subscription = calls[c].list[calls[c].k]]
            /\ UNCHANGED ret
    /\ UNCHANGED <<subscriptions, now, storage, pass, isLoading, isSyncing, error,
                   summary>>

\* scheduleForSubscription after await cancelForSubscription(...)
ScheduleBilling ==
  \E c \in DOMAIN calls :
    /\ calls[c].pc = "schedule"
    /\ IF ~calls[c].subscription.reminderEnabled
       THEN Scheduled(c) /\ UNCHANGED scheduledNotifications
       ELSE /\ scheduledNotifications' =
                 scheduleBillingReminder(scheduledNotifications,
                                         calls[c].subscription, now)
            /\ IF calls[c].subscription.isOneTime
                  /\ Truthy(calls[c].subscription.cycleLimit)
               THEN calls' = [calls EXCEPT ![c].pc = "alert"] /\ UNCHANGED ret
               ELSE Scheduled(c)
    /\ UNCHANGED <<subscriptions, now, storage, pass, isLoading, isSyncing, error,
                   summary>>

\* scheduleForSubscription after await scheduleBillingReminder(...)
ScheduleAlert ==
  \E c \in DOMAIN calls :
    /\ calls[c].pc = "alert"
    /\ scheduledNotifications' =
         scheduleCancellationAlert(scheduledNotifications, calls[c].subscription)
    /\ Scheduled(c)
    /\ UNCHANGED <<subscriptions, now, storage, pass, isLoading, isSyncing, error,
                   summary>>

-----------------------------------------------------------------------------
(* Specifications *)

InitBilling ==
  /\ subscriptions \in {<<s>> : s \in BillingSubs}
  /\ now = DaysBefore(WindowEnd, HorizonDays)
  /\ ret = NoCall
  /\ storage = <<>>
  /\ pass = NoPass
  /\ InitApp

InitCycle ==
  /\ subscriptions \in {<<s>> : s \in CycleSubs}
  /\ now = DaysBefore(WindowEnd, CycleHorizonDays)
  /\ ret = NoCall
  /\ storage = <<>>
  /\ pass = NoPass
  /\ InitApp

InitMoney ==
  /\ subscriptions \in {<<s>> : s \in MoneySubs}
  /\ now = WindowEnd
  /\ ret = NoCall
  /\ storage = <<>>
  /\ pass = NoPass
  /\ InitApp

InitSpend ==
  /\ subscriptions \in Arrays(SpendProfiles)
  /\ now = WindowEnd
  /\ ret = NoCall
  /\ storage = <<>>
  /\ pass = NoPass
  /\ InitApp

InitUpcoming ==
  /\ subscriptions \in Arrays(UpcomingProfiles)
  /\ now = DaysBefore(WindowEnd, UpcomingHorizonDays)
  /\ ret = NoCall
  /\ storage = <<>>
  /\ pass = NoPass
  /\ InitApp

InitProgress ==
  /\ subscriptions \in {<<s>> : s \in BillingSubs \cup LimitedSubs}
  /\ now = DaysBefore(WindowEnd, HorizonDays)
  /\ ret = NoCall
  /\ storage = <<>>
  /\ pass = NoPass
  /\ InitApp

InitReminder ==
  /\ subscriptions \in {<<s>> : s \in ReminderSubs}
  /\ now = DaysBefore(WindowEnd, CycleHorizonDays)
  /\ ret = NoCall
  /\ storage = <<>>
  /\ pass = NoPass
  /\ InitApp

InitInverse ==
  /\ subscriptions \in {<<s>> : s \in InverseSubs}
  /\ now = WindowEnd
  /\ ret = NoCall
  /\ storage = <<>>
  /\ pass = NoPass
  /\ InitApp

InitFrame ==
  /\ subscriptions \in {a \in Arrays(FrameProfiles) : Len(a) <= MaxFrameSubs}
  /\ now = DaysBefore(WindowEnd, FrameHorizonDays)
  /\ ret = NoCall
  /\ storage = <<>>
  /\ pass = NoPass
  /\ InitApp

InitTotal ==
  /\ subscriptions \in {<<s>> : s \in WellFormedSubs}
  /\ now = DaysBefore(WindowEnd, TotalHorizonDays)
  /\ ret = NoCall
  /\ storage = <<>>
  /\ pass = NoPass
  /\ InitApp

\* the store and the storage of a new installation
InitEdit ==
  /\ subscriptions = <<>>
  /\ now = WindowEnd - EditTicks
  /\ ret = NoCall
  /\ storage = <<>>
  /\ pass = NoPass
  /\ InitApp

\* the store as created and nothing in storage, no call made, at 2023-03-09 12:00
InitStore ==
  /\ subscriptions = <<>>
  /\ now = WindowEnd - EditTicks
  /\ ret = NoCall
  /\ storage = <<>>
  /\ pass = NoPass
  /\ InitApp

\* some of the subscriptions above for the scheduler to be called on, no notification
\* scheduled, the clock SchedulerHorizonDays days before 2023-03-10
InitScheduler ==
  /\ subscriptions \in SubArrays(SchedulerProfiles)
  /\ now = DaysBefore(WindowEnd, SchedulerHorizonDays)
  /\ ret = NoCall
  /\ storage = <<>>
  /\ pass = NoPass
  /\ InitApp

Init == InitCycle \/ InitMoney \/ InitSpend \/ InitUpcoming

Next ==
  \/ Tick
  \/ CallGetNextBillingDate
  \/ CallGetSubscriptionEndDate
  \/ CallGetCancellationReminderDate
  \/ CallGetDaysUntilBilling
  \/ CallGetMonthlyEquivalent
  \/ CallCalculateTotalMonthlySpend
  \/ CallGetUpcomingSubscriptions
  \/ CallIsActive

Spec == Init /\ [][Next]_vars

\* the billing dates of recurring subscriptions as the clock runs
NextBilling == Tick \/ CallGetNextBillingDate \/ CallGetDaysUntilBilling
SpecBilling == InitBilling /\ [][NextBilling]_vars

\* the life of a one-time subscription as the clock runs
NextCycle ==
  \/ Tick
  \/ CallGetSubscriptionEndDate
  \/ CallGetCancellationReminderDate
  \/ CallIsActive
SpecCycle == InitCycle /\ [][NextCycle]_vars

\* the monthly equivalent of one subscription
NextMoney == CallGetMonthlyEquivalent
SpecMoney == InitMoney /\ [][NextMoney]_vars

\* the total monthly spend of an array of subscriptions
NextSpend == CallCalculateTotalMonthlySpend
SpecSpend == InitSpend /\ [][NextSpend]_vars

\* the upcoming subscriptions of an array as the clock runs
NextUpcoming == Tick \/ CallGetUpcomingSubscriptions
SpecUpcoming == InitUpcoming /\ [][NextUpcoming]_vars

\* the conversion of one amount between currencies
NextConvert == CallConvertCurrency
SpecConvert == InitMoney /\ [][NextConvert]_vars

\* the progress through the billing cycle as the clock runs
NextProgress == Tick \/ CallGetBillingCycleProgress
SpecProgress == InitProgress /\ [][NextProgress]_vars

\* the reminder before the next billing as the clock runs
NextReminder == Tick \/ CallGetReminderDate
SpecReminder == InitReminder /\ [][NextReminder]_vars

\* one billing cycle forth or back from a date
NextInverse == CallAddBillingCycle \/ CallSubtractBillingCycle
SpecInverse == InitInverse /\ [][NextInverse]_vars

\* the public functions of the calculator, called in any order on the same
\* array as the clock runs
NextFrame ==
  \/ Tick
  \/ CallGetNextBillingDate
  \/ CallGetSubscriptionEndDate
  \/ CallGetCancellationReminderDate
  \/ CallGetReminderDate
  \/ CallGetDaysUntilBilling
  \/ CallGetMonthlyEquivalent
  \/ CallCalculateTotalMonthlySpend
  \/ CallGetUpcomingSubscriptions
  \/ CallIsActive
  \/ CallGetBillingCycleProgress
SpecFrame == InitFrame /\ [][NextFrame]_vars

\* one call of getUpcomingSubscriptions while the clock runs
NextPass == Tick \/ PassStart \/ PassFilterStep \/ PassSortStep \/ PassReturn
SpecPass == InitFrame /\ [][NextPass]_vars

\* the functions that are to return for every well-formed subscription
NextTotal ==
  \/ Tick
  \/ CallGetNextBillingDate
  \/ CallGetCancellationReminderDate
  \/ CallGetReminderDate
  \/ CallGetDaysUntilBilling
  \/ CallIsActive
  \/ CallGetUpcomingSubscriptions
  \/ CallCalculateTotalMonthlySpend
  \/ CallGetBillingCycleProgress
SpecTotal == InitTotal /\ [][NextTotal]_vars

\* subscriptions made and edited through the form as the clock runs
NextEdit == Tick \/ SubmitNew \/ SubmitEdit \/ FetchSubscriptions \/ Rehydrate
SpecEdit == InitEdit /\ [][NextEdit]_vars

\* the calls of the scheduler, one after the other, as the clock runs
NextScheduler ==
  \/ Tick
  \/ CallScheduleForSubscription
  \/ CallCancelForSubscription
  \/ CallRescheduleAll
  \/ CallCancelAll
SpecScheduler == InitScheduler /\ [][NextScheduler]_vars

\* what a call of the store in flight does next
StoreSteps ==
  \/ SyncTakesLocal
  \/ GetItemResolves
  \/ GetItemRejects
  \/ SetItemResolves
  \/ SetItemRejects
  \/ FetchContinues
  \/ AddContinues
  \/ UpdateContinues
  \/ DeleteContinues
  \/ SyncContinues
  \/ RescheduleNext
  \/ ScheduleBilling
  \/ ScheduleAlert

\* the actions of the store called one after the other, each call made when
\* the call before it is over
NextStoreSeq ==
  \/ StoreFetchSubscriptions(1)
  \/ StoreAddSubscription(1)
  \/ StoreUpdateSubscription(1)
  \/ StoreDeleteSubscription(1)
  \/ StoreSyncWithBackend(1)
  \/ StoreSteps
SpecStoreSeq == InitStore /\ [][NextStoreSeq]_vars

\* the actions of the store called while up to MaxInFlight calls are in flight
NextStore ==
  \/ StoreFetchSubscriptions(MaxInFlight)
  \/ StoreAddSubscription(MaxInFlight)
  \/ StoreUpdateSubscription(MaxInFlight)
  \/ StoreDeleteSubscription(MaxInFlight)
  \/ StoreSyncWithBackend(MaxInFlight)
  \/ StoreSteps
SpecStore == InitStore /\ [][NextStore]_vars

\* the methods of LocalStorageBackendService called while up to MaxInFlight
\* calls are in flight
NextBackend ==
  \/ BackendCreateSubscription
  \/ BackendUpdateSubscription
  \/ BackendDeleteSubscription
  \/ BackendSyncSubscriptions
  \/ GetItemResolves
  \/ GetItemRejects
  \/ SetItemResolves
  \/ SetItemRejects
SpecBackend == InitStore /\ [][NextBackend]_vars

-----------------------------------------------------------------------------
(* Properties *)

\* the subscription the last call was about
Called == subscriptions[ret.i]

\* date advanced by n billing cycles, one after the other
RECURSIVE AdvancedBy(_, _, _, _)
AdvancedBy(date, n, frequency, customDays) ==
  IF n = 0 THEN date
  ELSE addBillingCycle(AdvancedBy(date, n - 1, frequency, customDays),
                       frequency, customDays)

(* C1: for every recurring subscription, of any of the five frequencies and  *)
(* any billing day, getNextBillingDate returns a date strictly after now.    *)
C1_NextBillingAfterNow ==
  (/\ ret.op = "getNextBillingDate"
   /\ ~Called.isOneTime
   /\ Called.frequency \in BillingFrequency)
    => (~ret.res.threw /\ ret.res.value > now)

(* C2: for a one-time subscription with cycleLimit N >= 1,                   *)
(* getSubscriptionEndDate returns startDate advanced by the billing cycle    *)
(* exactly N times: not N - 1 times and not N + 1 times.                     *)
C2_EndDateIsNCycles ==
  (/\ ret.op = "getSubscriptionEndDate"
   /\ Called.isOneTime
   /\ Called.cycleLimit >= 1)
    => LET after(n) == AdvancedBy(Called.startDate, n, Called.frequency,
                                  Called.customFrequencyDays)
       IN  /\ ~ret.res.threw
           /\ ret.res.value = after(Called.cycleLimit)
           /\ ret.res.value # after(Called.cycleLimit - 1)
           /\ ret.res.value # after(Called.cycleLimit + 1)

\* a two-cycle monthly subscription begun 2022-12-31 12:00 ends, through
\* 2023-01-31 and the rollover of February 31st, on 2023-03-03 12:00
C2_Witness ==
  /\ ret.op = "getSubscriptionEndDate"
  /\ Called.isOneTime
  /\ Called.cycleLimit = 2
  /\ Called.frequency = "monthly"
  /\ Called.startDate = NewDate(2022, 11, 31) + 1
  /\ ~ret.res.threw
  /\ ret.res.value = NewDate(2023, 2, 3) + 1

(* C3: getSubscriptionEndDate throws exactly when the subscription is not    *)
(* one-time or has no cycleLimit; with isOneTime and a positive cycleLimit   *)
(* it returns.                                                               *)
C3_EndDateThrowsIffNotLimited ==
  ret.op = "getSubscriptionEndDate"
    => (ret.res.threw <=>
          (~Called.isOneTime \/ Called.cycleLimit = Undefined))

\* it throws for a recurring subscription that carries a cycleLimit
C3_Witness ==
  /\ ret.op = "getSubscriptionEndDate"
  /\ ~Called.isOneTime
  /\ Called.cycleLimit >= 1
  /\ ret.res.threw

(* C4: for a one-time subscription with cycleLimit >= 2 the cancellation     *)
(* reminder is startDate advanced cycleLimit - 1 times and the end date is   *)
(* the reminder advanced by one more cycle; the reminder is null when the    *)
(* subscription is not one-time, has no cycleLimit or has cycleLimit <= 1.   *)
C4_ReminderOneCycleBeforeEnd ==
  ret.op = "getCancellationReminderDate"
    => /\ ~ret.res.threw
       /\ IF Called.isOneTime /\ Called.cycleLimit >= 2
          THEN /\ ret.res.value # Null
               /\ ret.res.value =
                    Some(AdvancedBy(Called.startDate, Called.cycleLimit - 1,
                                    Called.frequency, Called.customFrequencyDays))
               /\ ~getSubscriptionEndDate(Called).threw
               /\ getSubscriptionEndDate(Called).value =
                    addBillingCycle(ret.res.value[1], Called.frequency,
                                    Called.customFrequencyDays)
          ELSE ret.res.value = Null

\* a three-cycle quarterly subscription has its reminder after two quarters
C4_Witness ==
  /\ ret.op = "getCancellationReminderDate"
  /\ Called.isOneTime
  /\ Called.cycleLimit = 3
  /\ Called.frequency = "quarterly"
  /\ ~ret.res.threw
  /\ ret.res.value # Null
  /\ ret.res.value[1] > Called.startDate

(* C5: getMonthlyEquivalent returns amount for monthly, amount/3 for         *)
(* quarterly, amount/6 for half-yearly, amount/12 for yearly,                *)
(* amount*30/customFrequencyDays for custom and the raw amount for a         *)
(* frequency it does not know; it throws for no input.                       *)
C5_MonthlyEquivalentTable ==
  ret.op = "getMonthlyEquivalent"
    => LET amount == Called.amount
           value  == ret.res.value
           times(k) == FracMul(value, Num(k))
       IN  /\ ~ret.res.threw
           /\ Called.frequency = "monthly" => value = amount
           /\ Called.frequency = "quarterly" => times(3) = amount
           /\ Called.frequency = "half-yearly" => times(6) = amount
           /\ Called.frequency = "yearly" => times(12) = amount
           /\ (Called.frequency = "custom" /\ Called.customFrequencyDays > 0)
                => times(Called.customFrequencyDays) = FracMul(amount, Num(30))
           /\ Called.frequency \notin BillingFrequency => value = amount

\* 1.00 every 3 days is 10 a month
C5_Witness ==
  /\ ret.op = "getMonthlyEquivalent"
  /\ Called.frequency = "custom"
  /\ Called.customFrequencyDays = 3
  /\ Called.amount = Num(1)
  /\ ~ret.res.threw
  /\ ret.res.value = Num(10)

(* C6: getMonthlyEquivalent is linear in amount: with the amount doubled and *)
(* every other field the same, the result is twice the result.               *)
C6_MonthlyEquivalentLinear ==
  ret.op = "getMonthlyEquivalent"
    => LET doubled == [Called EXCEPT !.amount = FracMul(Num(2), Called.amount)]
       IN  /\ ~getMonthlyEquivalent(doubled).threw
           /\ getMonthlyEquivalent(doubled).value = FracMul(Num(2), ret.res.value)

\* 1.50 a quarter is 0.50 a month
C6_Witness ==
  /\ ret.op = "getMonthlyEquivalent"
  /\ Called.frequency = "quarterly"
  /\ Called.amount = Frac(3, 2)
  /\ ret.res.value = Frac(1, 2)

\* the sum of the monthly equivalents of the first k subscriptions that are
\* not soft-deleted
RECURSIVE LiveSum(_, _)
LiveSum(subs, k) ==
  IF k = 0 THEN Num(0)
  ELSE IF subs[k].isDeleted THEN LiveSum(subs, k - 1)
       ELSE FracAdd(LiveSum(subs, k - 1), getMonthlyEquivalent(subs[k]).value)

(* C7: calculateTotalMonthlySpend is the sum of the monthly equivalents of   *)
(* the subscriptions that are not soft-deleted, unconverted: the same for    *)
(* every target currency and whatever the subscriptions' currencies are.     *)
C7_TotalIsUnconvertedLiveSum ==
  ret.op = "calculateTotalMonthlySpend"
    => LET inUSD == [k \in DOMAIN subscriptions |->
                       [subscriptions[k] EXCEPT !.currency = "USD"]]
       IN  /\ ~ret.res.threw
           /\ ret.res.value = LiveSum(subscriptions, Len(subscriptions))
           /\ \A c \in Currency :
                /\ calculateTotalMonthlySpend(subscriptions, c).value = ret.res.value
                /\ calculateTotalMonthlySpend(inUSD, c).value = ret.res.value

\* a live and a soft-deleted subscription in two currencies, neither of them
\* the target currency
C7_Witness ==
  /\ ret.op = "calculateTotalMonthlySpend"
  /\ \E i, j \in DOMAIN subscriptions :
       /\ subscriptions[i].isDeleted
       /\ ~subscriptions[j].isDeleted
       /\ subscriptions[i].currency # subscriptions[j].currency
       /\ subscriptions[i].currency # ret.targetCurrency
       /\ subscriptions[j].currency # ret.targetCurrency
  /\ ret.res.value # Num(0)

\* daysUntilBilling of sub at the instant of the call
DaysUntil(sub) == getDaysUntilBilling(sub, now).value

C9_DeletedIsInactive ==
  (ret.op = "isActive" /\ Called.isDeleted)
    => (~ret.res.threw /\ ret.res.value = FALSE)

\* a soft-deleted one-time subscription whose end date is still ahead
C9_Witness ==
  /\ ret.op = "isActive"
  /\ Called.isDeleted
  /\ Called.isOneTime
  /\ Called.cycleLimit >= 1
  /\ now < getSubscriptionEndDate(Called).value
  /\ ret.res.value = FALSE

(* C10: for a subscription that is not soft-deleted, isActive of a one-time  *)
(* subscription with a cycleLimit is true exactly while now is strictly      *)
(* before getSubscriptionEndDate, and isActive of a recurring subscription   *)
(* is true at every instant.                                                 *)
C10_ActiveUntilEndDate ==
  (ret.op = "isActive" /\ ~Called.isDeleted)
    => /\ ~ret.res.threw
       /\ (Called.isOneTime /\ Called.cycleLimit # Undefined)
            => (ret.res.value <=> now < getSubscriptionEndDate(Called).value)
       /\ ~Called.isOneTime => ret.res.value = TRUE

\* at the end instant itself the subscription is no longer active
C10_Witness ==
  /\ ret.op = "isActive"
  /\ ~Called.isDeleted
  /\ Called.isOneTime
  /\ Called.cycleLimit >= 1
  /\ now = getSubscriptionEndDate(Called).value
  /\ ret.res.value = FALSE

(* C11: convertCurrency(x, C, C) returns x unchanged, for every currency C   *)
(* and every amount x.                                                       *)
C11_SameCurrencyIsIdentity ==
  (ret.op = "convertCurrency" /\ ret.from = ret.to) => ret.res = ret.amount

\* a positive amount of a currency other than USD came back unchanged
C11_Witness ==
  /\ ret.op = "convertCurrency"
  /\ ret.from = "INR" /\ ret.to = "INR"
  /\ ret.amount = Frac(3, 4)
  /\ ret.res = Frac(3, 4)

(* C12: getBillingCycleProgress returns a number p with 0 <= p <= 100, for   *)
(* every subscription and every now: also when now is outside the interval   *)
(* between the previous and the next billing date, when a one-time           *)
(* subscription has ended and when the frequency is custom.                  *)
C12_ProgressWithinBounds ==
  ret.op = "getBillingCycleProgress"
    => (/\ ~ret.res.threw
        /\ IsFinite(ret.res.value)
        /\ FracLeq(Num(0), ret.res.value)
        /\ FracLeq(ret.res.value, Num(100)))

\* an ended one-time subscription, whose unclamped progress is beyond 100
C12_Witness ==
  /\ ret.op = "getBillingCycleProgress"
  /\ Called.isOneTime
  /\ now > getSubscriptionEndDate(Called).value
  /\ now > getNextBillingDate(Called, now).value
  /\ ret.res.value = Num(100)

\* now is midnight of the billingDate day of the current month
BillingOccurrence(sub, t) ==
  t = NewDate(getFullYear(t), getMonth(t), sub.billingDate)

(* C13: for a recurring subscription, getBillingCycleProgress is 0 when now  *)
(* is the instant of a billing occurrence, and as now advances from one      *)
(* occurrence to just before the next it never decreases and stays below     *)
(* 100.                                                                      *)
C13_ProgressRisesFromZero ==
  (ret.op = "getBillingCycleProgress" /\ ~Called.isOneTime)
    => (/\ BillingOccurrence(Called, now) => ret.res.value = Num(0)
        /\ FracLess(ret.res.value, Num(100))
        /\ ~BillingOccurrence(Called, now + 1)
             => FracLeq(ret.res.value, getBillingCycleProgress(Called, now + 1).value))

(* C14: getReminderDate returns null if and only if reminderEnabled is       *)
(* false; otherwise it returns exactly getNextBillingDate(subscription, now) *)
(* moved back by reminderDaysBefore calendar days, the same time of day (the *)
(* next billing date itself when reminderDaysBefore = 0).                    *)
C14_ReminderDaysBeforeBilling ==
  ret.op = "getReminderDate"
    => LET nextBilling == getNextBillingDate(Called, now).value
       IN  /\ ~ret.res.threw
           /\ ((ret.res.value = Null) <=> ~Called.reminderEnabled)
           /\ Called.reminderEnabled
                => /\ Len(ret.res.value) = 1
                   /\ DayOf(ret.res.value[1])
                        = DayOf(nextBilling) - Called.reminderDaysBefore
                   /\ TimeOfDay(ret.res.value[1]) = TimeOfDay(nextBilling)
                   /\ Called.reminderDaysBefore = 0
                        => ret.res.value = Some(nextBilling)

\* a reminder that falls in the month before the billing date
C14_Witness ==
  /\ ret.op = "getReminderDate"
  /\ Called.reminderEnabled
  /\ Called.reminderDaysBefore = MaxReminderDays
  /\ ret.res.value # Null
  /\ getMonth(ret.res.value[1]) # getMonth(getNextBillingDate(Called, now).value)

(* C15: getDaysUntilBilling is negative only in the terminal case: for every *)
(* subscription that is recurring, or one-time with now not past its end     *)
(* date, getDaysUntilBilling(subscription, now) >= 0.                        *)
C15_DaysUntilBillingNonNegative ==
  (/\ ret.op = "getDaysUntilBilling"
   /\ \/ ~Called.isOneTime
      \/ /\ Truthy(Called.cycleLimit)
         /\ now <= getSubscriptionEndDate(Called).value)
    => (~ret.res.threw /\ ret.res.value >= 0)

\* the last call moved ret.date one cycle, and moving the result one cycle the
\* other way gives ret.date again
CycleUndone ==
  LET frequency  == Called.frequency
      customDays == Called.customFrequencyDays
  IN  /\ ret.op = "addBillingCycle"
           => subtractBillingCycle(ret.res, frequency, customDays) = ret.date
      /\ ret.op = "subtractBillingCycle"
           => addBillingCycle(ret.res, frequency, customDays) = ret.date

(* C16, as claimed: subtractBillingCycle is the inverse of addBillingCycle    *)
(* for every date d, days 29, 30 and 31 of a month included, every frequency *)
(* and every positive customFrequencyDays:                                   *)
(* subtractBillingCycle(addBillingCycle(d)) = d and                          *)
(* addBillingCycle(subtractBillingCycle(d)) = d.                             *)
C16_SubtractInvertsAdd ==
  ret.op \in {"addBillingCycle", "subtractBillingCycle"} => CycleUndone

(* C16, amended: subtractBillingCycle is the inverse of addBillingCycle for  *)
(* every date d whose day of the month is at most 28, with every frequency,  *)
(* and for every date d with the custom frequency and every positive         *)
(* customFrequencyDays: subtractBillingCycle(addBillingCycle(d)) = d and     *)
(* addBillingCycle(subtractBillingCycle(d)) = d.                             *)
C16_SubtractInvertsAddUpToDay28 ==
  (/\ ret.op \in {"addBillingCycle", "subtractBillingCycle"}
   /\ Called.frequency = "custom" \/ getDate(ret.date) <= 28)
    => CycleUndone

\* 2024-01-28 12:00 advanced by a month to 2024-02-28 12:00
C16_Witness ==
  /\ ret.op = "addBillingCycle"
  /\ Called.frequency = "monthly"
  /\ ret.date = NewDate(2024, 0, 28) + 1
  /\ ret.res = NewDate(2024, 1, 28) + 1
  /\ subtractBillingCycle(ret.res, "monthly", Undefined) = ret.date

\* a call without its result: the function and what it was given
WithoutRes(r) == [f \in (DOMAIN r) \ {"res"} |-> r[f]]

(* C17: no calculator function changes its input or keeps state.  Whatever   *)
(* calls were made before, a call of getNextBillingDate,                     *)
(* getSubscriptionEndDate, getCancellationReminderDate, getReminderDate,     *)
(* getDaysUntilBilling, getMonthlyEquivalent, calculateTotalMonthlySpend,    *)
(* getUpcomingSubscriptions, isActive or getBillingCycleProgress leaves      *)
(* every field of every Subscription it was given (its startDate too) and    *)
(* the order of the array as they were, and a call that follows a call of    *)
(* the same function with the same inputs at the same now returns the same   *)
(* result.                                                                   *)
C17_InputsUnchangedNoState ==
  [][/\ subscriptions' = subscriptions
     /\ (ret.op # "none" /\ WithoutRes(ret') = WithoutRes(ret)) => ret' = ret]_vars

\* getUpcomingSubscriptions returned the subscriptions in another order than
\* the array has them, one of them a one-time subscription whose end date was
\* computed from its startDate; the array is in the order it was made in
C17_Witness ==
  /\ ret.op = "getUpcomingSubscriptions"
  /\ ~ret.res.threw
  /\ Len(ret.res.value) = 2
  /\ ret.res.value[1].id > ret.res.value[2].id
  /\ ret.res.value[1].isOneTime
  /\ \A k \in DOMAIN subscriptions :
        /\ subscriptions[k].id = k
        /\ subscriptions[k] \in {[p EXCEPT !.id = k] : p \in FrameProfiles}

(* C18: within one aggregate pass (one call of getUpcomingSubscriptions)     *)
(* every subscription is evaluated against one and the same now: the window  *)
(* filter and the sort comparisons all see the same instant, even if the     *)
(* clock advances while the pass runs.                                       *)
C18_OneNowPerPass ==
  pass.pc = "done" => Cardinality(pass.samples) <= 1

(* C19: apart from getSubscriptionEndDate, no calculator function fails on a *)
(* well-formed subscription: getNextBillingDate, getCancellationReminderDate,*)
(* getReminderDate, getDaysUntilBilling, isActive, getUpcomingSubscriptions, *)
(* calculateTotalMonthlySpend and getBillingCycleProgress return a value for *)
(* every recurring subscription and every one-time subscription with a       *)
(* positive cycleLimit, at every now.                                        *)
C19_TotalOnWellFormed ==
  (/\ ret.op \in {"getNextBillingDate", "getCancellationReminderDate",
                  "getReminderDate", "getDaysUntilBilling", "isActive",
                  "getUpcomingSubscriptions", "calculateTotalMonthlySpend",
                  "getBillingCycleProgress"}
   /\ \A k \in DOMAIN subscriptions : WellFormed(subscriptions[k]))
    => ~ret.res.threw

\* isActive returned true for a recurring subscription, for which
\* getSubscriptionEndDate throws
C19_Witness ==
  /\ ret.op = "isActive"
  /\ ~Called.isOneTime
  /\ getSubscriptionEndDate(Called).threw
  /\ ret.res = Return(TRUE)

(* C20: startDate is immutable once a subscription is created: after any     *)
(* sequence of edits submitted through the subscription form and applied by  *)
(* the store's updateSubscription and the backend's updateSubscription, the  *)
(* stored startDate of a subscription equals the startDate it was created    *)
(* with.  Step by step: a record that storage gains has the instant of its   *)
(* making as startDate, no step changes the startDate of a record in storage *)
(* or of a subscription in the store, and the two agree.                     *)
C20_StartDateImmutable ==
  [][/\ \A k \in DOMAIN storage :
          /\ k \in DOMAIN storage'
          /\ storage'[k].id = storage[k].id
          /\ getTime(storage'[k].startDate) = getTime(storage[k].startDate)
     /\ \A k \in (DOMAIN storage') \ (DOMAIN storage) :
          getTime(storage'[k].startDate) = now
     /\ \A a \in DOMAIN subscriptions, b \in DOMAIN subscriptions' :
          subscriptions'[b].id = subscriptions[a].id
            => getTime(subscriptions'[b].startDate) = getTime(subscriptions[a].startDate)
     /\ \A b \in DOMAIN subscriptions', k \in DOMAIN storage' :
          subscriptions'[b].id = storage'[k].id
            => getTime(subscriptions'[b].startDate) = getTime(storage'[k].startDate)]_vars

\* an edit, made after the clock moved on, has changed the amount of a
\* subscription whose startDate is still the instant it was created at
C20_Witness ==
  /\ ret.op = "updateSubscription"
  /\ ~ret.res.threw
  /\ \E k \in DOMAIN storage :
       /\ storage[k].id = ret.id
       /\ storage[k].amount = Num(MaxAmount)
       /\ getTime(storage[k].updatedAt) > getTime(storage[k].createdAt)
       /\ getTime(storage[k].startDate) = getTime(storage[k].createdAt)
       /\ ret.res.value.startDate = DateObject(getTime(storage[k].createdAt))

\* the recurring subscription with the billingDate and frequency of sub
Recurring(sub) == [sub EXCEPT !.isOneTime = FALSE, !.cycleLimit = Undefined]

C23_NextBillingNotAfterEnd ==
  (/\ ret.op = "getNextBillingDate"
   /\ Called.isOneTime
   /\ Truthy(Called.cycleLimit)
   /\ now < getSubscriptionEndDate(Called).value)
    => ret.res.value <= getSubscriptionEndDate(Called).value

(* C24: for a recurring subscription getNextBillingDate is monotonic in now: *)
(* the date returned at an instant is not earlier than the date returned at  *)
(* the instant before (and so than at any earlier instant).                  *)
C24_NextBillingMonotonic ==
  (/\ ret.op = "getNextBillingDate"
   /\ ~Called.isOneTime
   /\ now > DaysBefore(WindowEnd, HorizonDays))
    => getNextBillingDate(Called, now - 1).value <= ret.res.value

\* the notifications the scheduler holds
Held == {scheduledNotifications[key] : key \in DOMAIN scheduledNotifications}

(* C25: after any sequence of scheduleForSubscription, cancelForSubscription, *)
(* rescheduleAll and cancelAll calls the scheduler holds at most one          *)
(* billing_reminder and at most one cancellation_alert per subscription id,   *)
(* and every notification it holds is under the key billing_<id> or           *)
(* cancel_<id> of its kind with <id> its subscriptionId.                      *)
C25_OneNotificationPerKindAndId ==
  /\ \A key \in DOMAIN scheduledNotifications :
       LET notification == scheduledNotifications[key]
       IN  /\ notification.id = key
           /\ key[2] = notification.subscriptionId
           /\ \/ key[1] = "billing_" /\ notification.type = "billing_reminder"
              \/ key[1] = "cancel_" /\ notification.type = "cancellation_alert"
  /\ \A key1, key2 \in DOMAIN scheduledNotifications :
       (/\ scheduledNotifications[key1].type = scheduledNotifications[key2].type
        /\ scheduledNotifications[key1].subscriptionId
             = scheduledNotifications[key2].subscriptionId)
         => key1 = key2

\* after a call, both kinds are held for one subscription and a billing
\* reminder for another
C25_Witness ==
  /\ ret.op \in {"scheduleForSubscription", "rescheduleAll"}
  /\ \E id1, id2 \in {subscriptions[k].id : k \in DOMAIN subscriptions} :
       /\ id1 # id2
       /\ {billingId(id1), cancelId(id1), billingId(id2)}
            \subseteq DOMAIN scheduledNotifications

(* C26: when scheduleForSubscription completes, the scheduler holds no        *)
(* notification for the subscription it was given if its reminderEnabled is   *)
(* false; when rescheduleAll(subscriptions) completes, every notification     *)
(* held is for a subscription of that list whose reminderEnabled is true and  *)
(* for which isActive is true.                                                *)
C26_NoneForDisabledOrInactive ==
  /\ (ret.op = "scheduleForSubscription" /\ ~ret.subscription.reminderEnabled)
       => \A notification \in Held :
            notification.subscriptionId # ret.subscription.id
  /\ ret.op = "rescheduleAll"
       => \A notification \in Held :
            \E k \in DOMAIN ret.subscriptions :
              /\ ret.subscriptions[k].id = notification.subscriptionId
              /\ ret.subscriptions[k].reminderEnabled
              /\ isActive(asRead(ret.subscriptions[k]), now).value

\* rescheduleAll of a list with a subscription that has ended, one with the
\* reminder off and one with notifications
C26_Witness ==
  /\ ret.op = "rescheduleAll"
  /\ Held # {}
  /\ \E k \in DOMAIN ret.subscriptions :
       /\ ~ret.subscriptions[k].isDeleted
       /\ ~isActive(asRead(ret.subscriptions[k]), now).value
  /\ \E k \in DOMAIN ret.subscriptions : ~ret.subscriptions[k].reminderEnabled

\* the calls of the store's action op that completed without a failure
Completed(op) ==
  {c \in DOMAIN calls : /\ calls[c].op = op /\ ~calls[c].direct
                        /\ calls[c].pc = "done" /\ calls[c].rejected = Null}

(* C21: a subscription deleted through the store's deleteSubscription keeps   *)
(* its record in storage with isDeleted = true after any later sequence of    *)
(* store actions (called one after the other), and getSubscriptions does not  *)
(* return it.                                                                 *)
C21_SoftDeletedRecordStays ==
  \A c \in Completed("deleteSubscription") :
    /\ \E k \in DOMAIN storage :
         storage[k].id = calls[c].id /\ storage[k].isDeleted
    /\ \A k \in DOMAIN getSubscriptions(storage, MOCK_USER_ID) :
         getSubscriptions(storage, MOCK_USER_ID)[k].id # calls[c].id

(* C27: once the store's deleteSubscription(id) has completed successfully    *)
(* and no store action is in flight, the store's subscriptions list has no    *)
(* subscription with that id and the scheduler holds no notification for it,  *)
(* whatever calls of the store overlapped with the deletion.                  *)
C27_DeletedStaysGone ==
  InFlight = {} =>
    \A c \in Completed("deleteSubscription") :
      /\ \A k \in DOMAIN subscriptions : subscriptions[k].id # calls[c].id
      /\ \A notification \in Held : notification.subscriptionId # calls[c].id

\* call c of the store has failed and is not over before this step
Failing(c) ==
  /\ c \in DOMAIN calls'
  /\ ~calls'[c].direct
  /\ calls'[c].rejected # Null
  /\ c \in DOMAIN calls => calls[c].pc # "done"

(* C28: a store action whose backend call fails leaves subscriptions and      *)
(* summary as they were, sets error to the message of the failure and         *)
(* isLoading to false, and throws the failure again if it is addSubscription,  *)
(* updateSubscription or deleteSubscription and returns normally if it is     *)
(* fetchSubscriptions or syncWithBackend (calls made one after the other).    *)
C28_FailureLeavesStateAndSetsError ==
  [][\A c \in DOMAIN calls' :
       Failing(c) =>
         /\ subscriptions' = subscriptions
         /\ summary' = summary
         /\ calls'[c].pc = "done" =>
              /\ error' = calls'[c].rejected
              /\ ~isLoading'
              /\ IF calls'[c].op \in {"fetchSubscriptions", "syncWithBackend"}
                 THEN calls'[c].res = Return(Null)
                 ELSE calls'[c].res = Throw(calls'[c].rejected[1])]_vars

\* the calls of the store that set isLoading and still wait for their backend call
WaitingOnBackend ==
  {c \in DOMAIN calls : /\ ~calls[c].direct /\ calls[c].op \in Loading
                        /\ calls[c].pc \in {"getItem", "setItem"}}

(* C29: isLoading is true whenever a fetchSubscriptions, addSubscription,     *)
(* updateSubscription or deleteSubscription call still waits on its backend   *)
(* call, also when several calls overlap; and when every call made is over,   *)
(* isLoading and isSyncing are both false.                                    *)
C29_LoadingWhileWaiting ==
  /\ WaitingOnBackend # {} => isLoading
  /\ InFlight = {} => ~isLoading /\ ~isSyncing

\* the calls made on the backend that returned, of method op
Returned(op) ==
  {c \in DOMAIN calls : /\ calls[c].op = op /\ calls[c].direct
                        /\ calls[c].pc = "done" /\ calls[c].rejected = Null}

\* the records of storage with this id
Records(id) == {k \in DOMAIN storage : storage[k].id = id}

(* C30: when no call on LocalStorageBackendService is in flight, every         *)
(* subscription whose createSubscription returned has its record in storage,  *)
(* no subscription whose deleteSubscription returned has a record that is not *)
(* marked isDeleted, and the record of a subscription updated by one          *)
(* updateSubscription call that returned has the fields of that update,       *)
(* whatever create, update, delete and sync calls overlapped.                 *)
C30_NoLostWrite ==
  InFlight = {} =>
    /\ \A c \in Returned("addSubscription") : Records(calls[c].id) # {}
    /\ \A c \in Returned("deleteSubscription") :
         \A k \in Records(calls[c].id) : storage[k].isDeleted
    /\ \A c \in Returned("updateSubscription") :
         (\A d \in DOMAIN calls :
            (calls[d].op = "updateSubscription" /\ calls[d].id = calls[c].id) => d = c)
           => \A k \in Records(calls[c].id) :
                /\ storage[k].amount = calls[c].input.amount
                /\ storage[k].isOneTime = calls[c].input.isOneTime
                /\ storage[k].cycleLimit = calls[c].input.cycleLimit
                /\ storage[k].reminderEnabled = calls[c].input.reminderEnabled

====
